---- MODULE Spec2Model ----
(***************************************************************************)
(* EcoBin: the data-access layer DatabaseStorage (server/storage.ts) over  *)
(* the relational store.  Every storage method is an async function; each  *)
(* awaited database statement is one atomic step of the request that runs  *)
(* it, and requests of different processes interleave between statements.  *)
(***************************************************************************)
EXTENDS Integers, Sequences, FiniteSets, TLC

\* ------------------------------------------------------------------ bounds
MaxCalls == 2          \* storage calls started in one behaviour (getUserAnalytics aside)
MaxInitPoints == 2     \* largest ecoPoints balance a user starts with
MaxPoints == 1         \* largest ecoPointsEarned of a waste entry
MaxCap == 2            \* largest maxParticipants of a cleanup event

\* ------------------------------------------------------------------ inputs
Procs == {"p1", "p2"}                 \* concurrent HTTP requests
UserIds == {"u1", "u2"}               \* ids that have a users row
AllUserIds == UserIds \cup {"u3"}     \* "u3" matches no users row
RewardIds == {1, 2}                   \* ids that have a rewards row
AllRewardIds == RewardIds \cup {3}    \* 3 matches no rewards row
WasteTypes == {"plastic", "paper", "constructor", "__proto__"}
Quantities == {<<"2">>, <<"3">>, <<"2", ".", "5">>}   \* numeric column text
RedemptionCodes == {"ECO-A", "ECO-B"}

PointsEntries ==
    {[userId |-> u, wasteType |-> "plastic", quantity |-> <<"2">>,
      ecoPointsEarned |-> n] : u \in UserIds, n \in 0..MaxPoints}

AnalyticsEntries ==
    {[userId |-> "u1", wasteType |-> "plastic", quantity |-> q, ecoPointsEarned |-> 1] :
        q \in Quantities}
    \cup {[userId |-> u, wasteType |-> t, quantity |-> <<"2">>, ecoPointsEarned |-> 1] :
            u \in UserIds, t \in WasteTypes}

\* the query keys of the Community page
QueryKeys == {"/api/community-reports", "/api/cleanup-events"}

\* a useQuery that has not fetched: no request issued, no failure seen, no
\* data (data is <<>> for undefined, or <<the response>>)
IdleQuery == [status |-> "idle", requests |-> 0, failureCount |-> 0, data |-> <<>>]

\* the query begins a fetch: its request is issued, the data it has stay
Fetch(query) ==
    [status |-> "fetching", requests |-> 1, failureCount |-> 0, data |-> query.data]

\* the responses of GET /api/cleanup-events: no event, an event with a place
\* left, a full event
EventLists ==
    {<<>>,
     <<[id |-> 1, currentParticipants |-> 0, maxParticipants |-> 1]>>,
     <<[id |-> 1, currentParticipants |-> 1, maxParticipants |-> 1]>>}

\* the responses of GET /api/community-reports: no report, one report
ReportLists == {<<>>, <<[id |-> 1]>>}

Responses(key) == IF key = "/api/cleanup-events" THEN EventLists ELSE ReportLists

\* ------------------------------------------------------------------- state
VARIABLES
    users,                  \* table users: id -> row
    wasteEntries,           \* table waste_entries: rows in insertion order
    rewards,                \* table rewards: id -> row
    userRewards,            \* table user_rewards: rows in insertion order
    cleanupEvents,          \* table cleanup_events: id -> row
    eventParticipants,      \* table event_participants: rows in insertion order
    userChallengeProgress,  \* table user_challenge_progress: rows in insertion order
    pc,                     \* per request: the statement it awaits next
    call,                   \* per request: the method it runs (or ran last) and its arguments
    local,                  \* per request: the method's local constants
    result,                 \* per request: how its last call ended
    pre,                    \* per request: the tables as they were when the running call started
    progressLog,            \* every updateChallengeProgress call made: <<userId, challengeId, progress>>
    calls,                  \* number of calls started (getUserAnalytics aside)
    communityReports,       \* table community_reports: rows in insertion order
    pickupSchedules,        \* table pickup_schedules: rows in insertion order
    users0,                 \* the users table as it was at the start
    deductions,             \* per user id: the costs redeemReward has deducted, in order
    toasts,                 \* client: the toasts shown, in order
    redirectTimers,         \* client: pending setTimeout callbacks that go to /api/login
    location,               \* client: window.location.href
    queries,                \* client: per query key, the state of its useQuery fetch
    ecoChallenges,          \* table eco_challenges: rows in insertion order
    isLoading,              \* client: useAuth().isLoading
    isAuthenticated,        \* client: useAuth().isAuthenticated
    quizTopic,              \* Learn page: the topic typed
    currentQuiz,            \* Learn page: <<>> for null, or <<the quiz>>
    quizAnswers,            \* Learn page: question index -> option index chosen
    quizResults,            \* Learn page: <<>> for null, or <<the results>>
    generating,             \* Learn page: generateQuizMutation.isPending
    submitting,             \* Learn page: <<>>, or <<the results>> of the pending submitQuizMutation
    activeTab,              \* Community page: the tab selected
    showReportForm,         \* Community page: the report form is open
    reporting,              \* Community page: reportMutation.isPending
    joining,                \* Community page: joinEventMutation.isPending
    orphans                 \* client: the requests in flight whose page has unmounted

tables == <<users, wasteEntries, rewards, userRewards, cleanupEvents, eventParticipants,
            userChallengeProgress>>

reports == <<communityReports, pickupSchedules>>

\* what no method writes: the history of the initial users, and eco_challenges
fixed == <<users0, ecoChallenges>>

storage == <<tables, pc, call, local, result, pre, progressLog, calls, reports, fixed,
             deductions>>

auth == <<isLoading, isAuthenticated>>

quiz == <<quizTopic, currentQuiz, quizAnswers, quizResults, generating, submitting>>

community == <<activeTab, showReportForm, reporting, joining>>

client == <<toasts, redirectTimers, location, queries, auth, quiz, community, orphans>>

vars == <<users, wasteEntries, rewards, userRewards, cleanupEvents, eventParticipants,
          userChallengeProgress, pc, call, local, result, pre, progressLog, calls,
          communityReports, pickupSchedules, users0, deductions,
          toasts, redirectTimers, location, queries, ecoChallenges,
          isLoading, isAuthenticated, quizTopic, currentQuiz, quizAnswers, quizResults,
          generating, submitting, activeTab, showReportForm, reporting, joining, orphans>>

Db == [users |-> users, wasteEntries |-> wasteEntries, userRewards |-> userRewards,
       cleanupEvents |-> cleanupEvents, eventParticipants |-> eventParticipants,
       userChallengeProgress |-> userChallengeProgress]

NoCall == [op |-> "none"]
NoLocal == [reward |-> <<>>, user |-> <<>>, wasteEntry |-> <<>>]
NoResult == [status |-> "none"]
NoPre == <<>>
Ok(v) == [status |-> "ok", value |-> v]
Error(msg) == [status |-> "error", message |-> msg]

Idle(p) == pc[p] = "idle"
CanStart(p) == Idle(p) /\ calls < MaxCalls

\* a call of request p begins with arguments c
Begin(p, c) ==
    /\ call' = [call EXCEPT ![p] = c]
    /\ calls' = calls + 1

\* the call of request p goes on to await statement next
Await(p, next) ==
    /\ pc' = [pc EXCEPT ![p] = next]
    /\ result' = [result EXCEPT ![p] = NoResult]
    /\ pre' = [pre EXCEPT ![p] = Db]

\* the call of request p returns v or throws
Return(p, r) ==
    /\ result' = [result EXCEPT ![p] = r]
    /\ pc' = [pc EXCEPT ![p] = "idle"]
    /\ pre' = [pre EXCEPT ![p] = NoPre]

\* ----------------------------------------------------------- SQL helpers
\* db.select().from(users).where(eq(users.id, id)): the matching rows
SelectUser(id) == IF id \in DOMAIN users THEN <<users[id]>> ELSE <<>>

\* mutant of SelectReward: only an active reward is found
SelectReward_activeOnly(rewardId) ==
    IF rewardId \in DOMAIN rewards /\ rewards[rewardId].isActive
    THEN <<rewards[rewardId]>>
    ELSE <<>>

\* db.select().from(rewards).where(eq(rewards.id, rewardId))
SelectReward(rewardId) ==
    IF rewardId \in DOMAIN rewards THEN <<rewards[rewardId]>> ELSE <<>>

\* mutant of AddEcoPoints: the update has no where clause
AddEcoPoints_all(id, delta) ==
    [u \in DOMAIN users |->
        IF "ecoPoints" \in DOMAIN users[u]
        THEN [users[u] EXCEPT !.ecoPoints = @ + delta]
        ELSE users[u]]

\* mutant of AddEcoPoints: the balance is assigned the delta instead of being incremented
AddEcoPoints_assign(id, delta) ==
    [u \in DOMAIN users |->
        IF u = id THEN [users[u] EXCEPT !.ecoPoints = delta] ELSE users[u]]

\* db.update(users).set({ecoPoints: sql`ecoPoints + delta`}).where(eq(users.id, id));
\* a column that is NULL is a field the row lacks, and NULL + delta is NULL
AddEcoPoints(id, delta) ==
    [u \in DOMAIN users |->
        IF u = id /\ "ecoPoints" \in DOMAIN users[u]
        THEN [users[u] EXCEPT !.ecoPoints = @ + delta]
        ELSE users[u]]

\* entry.ecoPointsEarned || 0: an absent or null ecoPointsEarned is a field the
\* entry lacks
EarnedOrZero(entry) ==
    IF "ecoPointsEarned" \in DOMAIN entry THEN entry.ecoPointsEarned ELSE 0

\* user.ecoPoints || 0
EcoPointsOrZero(user) == IF "ecoPoints" \in DOMAIN user THEN user.ecoPoints ELSE 0

\* ------------------------------------------------------------------ router
\* the paths the browser is sent to: the routes of the app, a path that is
\* no route, and the login endpoint of the server
Paths == {"/", "/schedule", "/scanner", "/analytics", "/community", "/learn", "/about",
          "/missing", "/api/login"}

\* mutant of Routes: the protected routes are mounted whatever useAuth() gives
Routes_alwaysMounted(loading, authenticated) ==
    <<[path |-> <<"/">>, component |-> IF loading \/ ~authenticated THEN "Landing"
                                                                     ELSE "Dashboard"],
      [path |-> <<"/schedule">>, component |-> "Schedule"],
      [path |-> <<"/scanner">>, component |-> "Scanner"],
      [path |-> <<"/analytics">>, component |-> "Analytics"],
      [path |-> <<"/community">>, component |-> "Community"],
      [path |-> <<"/learn">>, component |-> "Learn"],
      [path |-> <<"/about">>, component |-> "About"],
      [path |-> <<>>, component |-> "NotFound"]>>

\* the children of <Switch>: the <Route>s in order, path <<>> for a <Route>
\* with no path
Routes(loading, authenticated) ==
    (IF loading \/ ~authenticated
     THEN <<[path |-> <<"/">>, component |-> "Landing"]>>
     ELSE <<[path |-> <<"/">>, component |-> "Dashboard"],
            [path |-> <<"/schedule">>, component |-> "Schedule"],
            [path |-> <<"/scanner">>, component |-> "Scanner"],
            [path |-> <<"/analytics">>, component |-> "Analytics"],
            [path |-> <<"/community">>, component |-> "Community"],
            [path |-> <<"/learn">>, component |-> "Learn"],
            [path |-> <<"/about">>, component |-> "About"]>>)
    \o <<[path |-> <<>>, component |-> "NotFound"]>>

\* <Switch>: the component of the first route that matches the path, a route
\* with no path matching every path; "none" when no route matches
Switch(routes, path) ==
    LET matching == SelectSeq(routes, LAMBDA r : r.path = <<>> \/ r.path = <<path>>)
    IN  IF matching = <<>> THEN "none" ELSE matching[1].component

\* useQuery of a page that mounts, the queries being qs: Community fetches its
\* queries that were never fetched, those whose data were invalidated, and
\* those in error (retryOnMount is not set); a request in flight goes on, and
\* a query that succeeded keeps its data
QueriesOnMount(component, qs) ==
    IF component = "Community"
    THEN [key \in QueryKeys |->
            IF qs[key].status \in {"idle", "invalidated", "error"} THEN Fetch(qs[key])
            ELSE qs[key]]
    ELSE qs

\* -------------------------------------------------------------------- Init
\* the store holds the users with balances drawn from points, the seeded rewards,
\* and one cleanup event drawn from events; no request is running
SeededRewards ==
    (1 :> [id |-> 1, ecoPointsCost |-> 2, isActive |-> TRUE, validUntil |-> 30]
     @@ 2 :> [id |-> 2, ecoPointsCost |-> 3, isActive |-> FALSE, validUntil |-> 60])

\* the user rows with a balance drawn from points
UserRows(points) ==
    [id : UserIds, ecoPoints : points, carbonFootprint : {<<"1", ".", "5">>}]

\* the user rows whose ecoPoints and carbonFootprint columns are NULL
NullPointsRows == [id : UserIds]

SeededChallenges ==
    <<[id |-> 1, isActive |-> TRUE, endDate |-> 2],
      [id |-> 2, isActive |-> FALSE, endDate |-> 1],
      [id |-> 3, isActive |-> TRUE, endDate |-> 1]>>

\* the client at path, useAuth() giving loading and authenticated: the page
\* of the path has mounted, nothing is shown
InitClientAs(path, loading, authenticated) ==
    /\ toasts = <<>>
    /\ redirectTimers = 0
    /\ location = path
    /\ queries = QueriesOnMount(Switch(Routes(loading, authenticated), path),
                                [k \in QueryKeys |-> IdleQuery])
    /\ isLoading = loading
    /\ isAuthenticated = authenticated
    /\ quizTopic = <<>>
    /\ currentQuiz = <<>>
    /\ quizAnswers = <<>>
    /\ quizResults = <<>>
    /\ generating = FALSE
    /\ submitting = <<>>
    /\ activeTab = "reports"
    /\ showReportForm = FALSE
    /\ reporting = FALSE
    /\ joining = FALSE
    /\ orphans = <<>>

\* the client with authentication loaded, the page at path mounted, nothing shown
InitClient(path) == InitClientAs(path, FALSE, TRUE)

InitStorage(userRows, rewardRows, events) ==
    /\ users \in [UserIds -> userRows]
    /\ \A u \in UserIds : users[u].id = u
    /\ wasteEntries = <<>>
    /\ rewards = rewardRows
    /\ userRewards = <<>>
    /\ \E e \in events : cleanupEvents = (1 :> ([id |-> 1] @@ e))
    /\ eventParticipants = <<>>
    /\ userChallengeProgress = <<>>
    /\ pc = [p \in Procs |-> "idle"]
    /\ call = [p \in Procs |-> NoCall]
    /\ local = [p \in Procs |-> NoLocal]
    /\ result = [p \in Procs |-> NoResult]
    /\ pre = [p \in Procs |-> NoPre]
    /\ progressLog = <<>>
    /\ calls = 0
    /\ communityReports = <<>>
    /\ pickupSchedules = <<>>
    /\ users0 = users
    /\ deductions = [u \in AllUserIds |-> <<>>]
    /\ ecoChallenges = SeededChallenges

InitFrom(userRows, rewardRows, events) ==
    InitStorage(userRows, rewardRows, events) /\ InitClient("/community")

InitWith(points, events) == InitFrom(UserRows(points), SeededRewards, events)

Init == InitWith(0..MaxInitPoints, {[maxParticipants |-> 1, currentParticipants |-> 0]})

\* ------------------------------------------------------------- upsertUser
UserInputs == {[id |-> u, email |-> e] : u \in AllUserIds, e \in {"a@eco.bin", "b@eco.bin"}}

\* column defaults of users
UserDefaults == [ecoPoints |-> 0, carbonFootprint |-> <<"0">>]

\* db.insert(users).values(userData)
\*   .onConflictDoUpdate({ target: users.id, set: { ...userData, updatedAt: new Date() } })
UpsertUser(userData, now) ==
    IF userData.id \in DOMAIN users
    THEN [users EXCEPT ![userData.id] = ([updatedAt |-> now] @@ userData) @@ @]
    ELSE (userData.id :> (userData @@ UserDefaults)) @@ users

upsertUser(p, userData, now) ==
    /\ CanStart(p)
    /\ Begin(p, [op |-> "upsertUser", userData |-> userData])
    /\ users' = UpsertUser(userData, now)
    /\ Return(p, Ok(<<UpsertUser(userData, now)[userData.id]>>))
    /\ local' = [local EXCEPT ![p] = NoLocal]
    /\ UNCHANGED <<wasteEntries, rewards, userRewards, cleanupEvents, eventParticipants,
                   userChallengeProgress, progressLog>>
    /\ UNCHANGED <<reports, client, fixed, deductions>>

\* -------------------------------------------------------- createWasteEntry
\* mutant of createWasteEntry_insert: the points are credited together with the
\* insert
createWasteEntry_insert_credited(p, entry) ==
    /\ CanStart(p)
    /\ Begin(p, [op |-> "createWasteEntry", entry |-> entry])
    /\ LET row == [id |-> Len(wasteEntries) + 1] @@ entry IN
        /\ wasteEntries' = Append(wasteEntries, row)
        /\ local' = [local EXCEPT ![p] = [NoLocal EXCEPT !.wasteEntry = <<row>>]]
    /\ users' = AddEcoPoints(entry.userId, EarnedOrZero(entry))
    /\ Await(p, "createWasteEntry_update")
    /\ UNCHANGED <<rewards, userRewards, cleanupEvents, eventParticipants,
                   userChallengeProgress, progressLog>>
    /\ UNCHANGED <<reports, client, fixed, deductions>>

\* db.insert(wasteEntries).values(entry).returning()
createWasteEntry_insert(p, entry) ==
    /\ CanStart(p)
    /\ Begin(p, [op |-> "createWasteEntry", entry |-> entry])
    /\ LET row == [id |-> Len(wasteEntries) + 1] @@ entry IN
        /\ wasteEntries' = Append(wasteEntries, row)
        /\ local' = [local EXCEPT ![p] = [NoLocal EXCEPT !.wasteEntry = <<row>>]]
    /\ Await(p, "createWasteEntry_update")
    /\ UNCHANGED <<users, rewards, userRewards, cleanupEvents, eventParticipants,
                   userChallengeProgress, progressLog>>
    /\ UNCHANGED <<reports, client, fixed, deductions>>

\* db.update(users).set({ecoPoints: ecoPoints + (entry.ecoPointsEarned || 0)}); return wasteEntry
createWasteEntry_update(p) ==
    /\ pc[p] = "createWasteEntry_update"
    /\ users' = AddEcoPoints(call[p].entry.userId, EarnedOrZero(call[p].entry))
    /\ Return(p, Ok(local[p].wasteEntry[1]))
    /\ UNCHANGED <<wasteEntries, rewards, userRewards, cleanupEvents, eventParticipants,
                   userChallengeProgress, call, local, progressLog, calls>>
    /\ UNCHANGED <<reports, client, fixed, deductions>>

\* ------------------------------------------------------------ redeemReward
\* mutant of InsufficientPoints: only the missing user is rejected
InsufficientPoints_userOnly(user, reward) == user = <<>>

\* mutant of InsufficientPoints: a balance equal to the cost is rejected too
InsufficientPoints_lte(user, reward) ==
    \/ user = <<>>
    \/ EcoPointsOrZero(user[1]) <= reward.ecoPointsCost

\* mutant of InsufficientPoints: any positive balance passes, whatever the cost
InsufficientPoints_anyPoints(user, reward) ==
    \/ user = <<>>
    \/ EcoPointsOrZero(user[1]) <= 0

\* mutant of InsufficientPoints: a missing user passes the check
InsufficientPoints_userPasses(user, reward) ==
    /\ user # <<>>
    /\ EcoPointsOrZero(user[1]) < reward.ecoPointsCost

\* if (!user || (user.ecoPoints || 0) < reward.ecoPointsCost)
InsufficientPoints(user, reward) ==
    \/ user = <<>>
    \/ EcoPointsOrZero(user[1]) < reward.ecoPointsCost

\* mutant of redeemReward_selectReward: the user is read and checked before the
\* missing reward is reported
redeemReward_selectReward_userFirst(p, userId, rewardId) ==
    /\ CanStart(p)
    /\ Begin(p, [op |-> "redeemReward", userId |-> userId, rewardId |-> rewardId])
    /\ LET reward == SelectReward(rewardId)
           user == SelectUser(userId) IN
        /\ local' = [local EXCEPT ![p] = [NoLocal EXCEPT !.reward = reward, !.user = user]]
        /\ IF user = <<>>
           THEN Return(p, Error("Insufficient EcoPoints"))
           ELSE IF reward = <<>>
                THEN Return(p, Error("Reward not found"))
                ELSE Await(p, "redeemReward_selectUser")
    /\ UNCHANGED <<tables, progressLog>>
    /\ UNCHANGED <<reports, client, fixed, deductions>>

\* select the reward; throw 'Reward not found' when there is none
redeemReward_selectReward(p, userId, rewardId) ==
    /\ CanStart(p)
    /\ Begin(p, [op |-> "redeemReward", userId |-> userId, rewardId |-> rewardId])
    /\ LET reward == SelectReward(rewardId) IN
        /\ local' = [local EXCEPT ![p] = [NoLocal EXCEPT !.reward = reward]]
        /\ IF reward = <<>>
           THEN Return(p, Error("Reward not found"))
           ELSE Await(p, "redeemReward_selectUser")
    /\ UNCHANGED <<tables, progressLog>>
    /\ UNCHANGED <<reports, client, fixed, deductions>>

\* select the user; throw 'Insufficient EcoPoints' when the check fails
redeemReward_selectUser(p) ==
    /\ pc[p] = "redeemReward_selectUser"
    /\ LET user == SelectUser(call[p].userId) IN
        /\ local' = [local EXCEPT ![p].user = user]
        /\ IF InsufficientPoints(user, local[p].reward[1])
           THEN Return(p, Error("Insufficient EcoPoints"))
           ELSE /\ pc' = [pc EXCEPT ![p] = "redeemReward_deduct"]
                /\ UNCHANGED <<result, pre>>
    /\ UNCHANGED <<tables, call, progressLog, calls>>
    /\ UNCHANGED <<reports, client, fixed, deductions>>

\* mutant of redeemReward_deduct: the update is not applied
redeemReward_deduct_skipped(p) ==
    /\ pc[p] = "redeemReward_deduct"
    /\ pc' = [pc EXCEPT ![p] = "redeemReward_insert"]
    /\ UNCHANGED <<users, wasteEntries, rewards, userRewards, cleanupEvents, eventParticipants,
                   userChallengeProgress, call, local, result, pre, progressLog, calls>>
    /\ UNCHANGED <<reports, client, fixed, deductions>>

\* mutant of redeemReward_deduct: the balance is written from the user row read
\* before the check, not decremented in the database
redeemReward_deduct_stale(p) ==
    /\ pc[p] = "redeemReward_deduct"
    /\ users' = [users EXCEPT ![call[p].userId].ecoPoints =
                    local[p].user[1].ecoPoints - local[p].reward[1].ecoPointsCost]
    /\ pc' = [pc EXCEPT ![p] = "redeemReward_insert"]
    /\ UNCHANGED <<wasteEntries, rewards, userRewards, cleanupEvents, eventParticipants,
                   userChallengeProgress, call, local, result, pre, progressLog, calls>>
    /\ deductions' = [deductions EXCEPT ![call[p].userId] =
                        Append(@, local[p].reward[1].ecoPointsCost)]
    /\ UNCHANGED <<reports, client, fixed>>

\* db.update(users).set({ecoPoints: sql`ecoPoints - cost`}).where(eq(users.id, userId))
redeemReward_deduct(p) ==
    /\ pc[p] = "redeemReward_deduct"
    /\ users' = AddEcoPoints(call[p].userId, 0 - local[p].reward[1].ecoPointsCost)
    /\ pc' = [pc EXCEPT ![p] = "redeemReward_insert"]
    /\ UNCHANGED <<wasteEntries, rewards, userRewards, cleanupEvents, eventParticipants,
                   userChallengeProgress, call, local, result, pre, progressLog, calls>>
    /\ deductions' = [deductions EXCEPT ![call[p].userId] =
                        Append(@, local[p].reward[1].ecoPointsCost)]
    /\ UNCHANGED <<reports, client, fixed>>

\* db.insert(userRewards).values({userId, rewardId, redemptionCode, expiresAt}); return userReward
redeemReward_insert(p) ==
    /\ pc[p] = "redeemReward_insert"
    /\ \E code \in RedemptionCodes :
        LET row == [id |-> Len(userRewards) + 1, userId |-> call[p].userId,
                    rewardId |-> call[p].rewardId, redemptionCode |-> code,
                    expiresAt |-> local[p].reward[1].validUntil] IN
        /\ userRewards' = Append(userRewards, row)
        /\ Return(p, Ok(row))
    /\ UNCHANGED <<users, wasteEntries, rewards, cleanupEvents, eventParticipants,
                   userChallengeProgress, call, local, progressLog, calls>>
    /\ UNCHANGED <<reports, client, fixed, deductions>>

\* ------------------------------------------- pickup schedules and reports
MaxReportCalls == 3

ReportInputs == {[reportType |-> "illegal_dumping", priority |-> "high"],
                 [reportType |-> "overflowing_bin", priority |-> "medium"]}
ReportStatuses == {"reported", "investigating", "resolved", "dismissed"}
PickupStatuses == {"scheduled", "completed", "cancelled"}
Times == {1, 2}

\* column defaults of community_reports and pickup_schedules; a timestamp
\* column is <<>> while it is NULL and <<t>> once it is set
ReportDefaults == [status |-> "reported", resolvedAt |-> <<>>]
PickupDefaults == [status |-> "scheduled", completedAt |-> <<>>]

CanStartReport(p) == Idle(p) /\ calls < MaxReportCalls

\* db.insert(pickupSchedules).values(schedule).returning(); return pickupSchedule
createPickupSchedule(p, schedule) ==
    /\ CanStartReport(p)
    /\ Begin(p, [op |-> "createPickupSchedule", schedule |-> schedule])
    /\ LET row == ([id |-> Len(pickupSchedules) + 1] @@ schedule) @@ PickupDefaults IN
        /\ pickupSchedules' = Append(pickupSchedules, row)
        /\ Return(p, Ok(<<row>>))
    /\ local' = [local EXCEPT ![p] = NoLocal]
    /\ UNCHANGED <<tables, progressLog, communityReports, client, fixed, deductions>>

\* mutant of SetPickupStatus: the update has no where clause
SetPickupStatus_allRows(id, status, now) ==
    [i \in 1..Len(pickupSchedules) |->
        [pickupSchedules[i] EXCEPT
            !.status = status,
            !.completedAt = IF status = "completed" THEN <<now>> ELSE @]]

\* .set({ status, completedAt: status === 'completed' ? new Date() : undefined })
\* .where(eq(pickupSchedules.id, id)): an undefined value leaves the column alone
SetPickupStatus(id, status, now) ==
    [i \in 1..Len(pickupSchedules) |->
        IF pickupSchedules[i].id = id
        THEN [pickupSchedules[i] EXCEPT
                !.status = status,
                !.completedAt = IF status = "completed" THEN <<now>> ELSE @]
        ELSE pickupSchedules[i]]

\* the rows .returning() gives back; `const [schedule]` is the first or undefined
ReturningPickup(rows, id) == SelectSeq(rows, LAMBDA r : r.id = id)

updatePickupScheduleStatus(p, id, status, now) ==
    /\ CanStartReport(p)
    /\ Begin(p, [op |-> "updatePickupScheduleStatus", id |-> id, status |-> status])
    /\ pickupSchedules' = SetPickupStatus(id, status, now)
    /\ Return(p, Ok(ReturningPickup(SetPickupStatus(id, status, now), id)))
    /\ local' = [local EXCEPT ![p] = NoLocal]
    /\ UNCHANGED <<tables, progressLog, communityReports, client, fixed, deductions>>

\* db.insert(communityReports).values(report).returning(); return communityReport
createCommunityReport(p, report) ==
    /\ CanStartReport(p)
    /\ Begin(p, [op |-> "createCommunityReport", report |-> report])
    /\ LET row == ([id |-> Len(communityReports) + 1] @@ report) @@ ReportDefaults IN
        /\ communityReports' = Append(communityReports, row)
        /\ Return(p, Ok(<<row>>))
    /\ local' = [local EXCEPT ![p] = NoLocal]
    /\ UNCHANGED <<tables, progressLog, pickupSchedules, client, fixed, deductions>>

\* mutant of SetReportStatus: any status but 'resolved' writes NULL into resolvedAt
SetReportStatus_clearing(id, status, now) ==
    [i \in 1..Len(communityReports) |->
        IF communityReports[i].id = id
        THEN [communityReports[i] EXCEPT
                !.status = status,
                !.resolvedAt = IF status = "resolved" THEN <<now>> ELSE <<>>]
        ELSE communityReports[i]]

\* mutant of SetReportStatus: the table is left with the rows the update matched
SetReportStatus_onlyMatching(id, status, now) ==
    SelectSeq([i \in 1..Len(communityReports) |->
                  IF communityReports[i].id = id
                  THEN [communityReports[i] EXCEPT
                          !.status = status,
                          !.resolvedAt = IF status = "resolved" THEN <<now>> ELSE @]
                  ELSE communityReports[i]],
              LAMBDA r : r.id = id)

\* .set({ status, resolvedAt: status === 'resolved' ? new Date() : undefined })
\* .where(eq(communityReports.id, id))
SetReportStatus(id, status, now) ==
    [i \in 1..Len(communityReports) |->
        IF communityReports[i].id = id
        THEN [communityReports[i] EXCEPT
                !.status = status,
                !.resolvedAt = IF status = "resolved" THEN <<now>> ELSE @]
        ELSE communityReports[i]]

ReturningReport(rows, id) == SelectSeq(rows, LAMBDA r : r.id = id)

updateCommunityReportStatus(p, id, status, now) ==
    /\ CanStartReport(p)
    /\ Begin(p, [op |-> "updateCommunityReportStatus", id |-> id, status |-> status])
    /\ communityReports' = SetReportStatus(id, status, now)
    /\ Return(p, Ok(ReturningReport(SetReportStatus(id, status, now), id)))
    /\ local' = [local EXCEPT ![p] = NoLocal]
    /\ UNCHANGED <<tables, progressLog, pickupSchedules, client, fixed, deductions>>

\* ---------------------------------------------------------- cleanup events
\* db.insert(cleanupEvents).values(event).returning(); return cleanupEvent
createCleanupEvent(p, event) ==
    /\ CanStart(p)
    /\ Begin(p, [op |-> "createCleanupEvent", event |-> event])
    /\ LET row == [id |-> Cardinality(DOMAIN cleanupEvents) + 1] @@ event IN
        /\ cleanupEvents' = (row.id :> row) @@ cleanupEvents
        /\ Return(p, Ok(row))
    /\ local' = [local EXCEPT ![p] = NoLocal]
    /\ UNCHANGED <<users, wasteEntries, rewards, userRewards, eventParticipants,
                   userChallengeProgress, progressLog>>
    /\ UNCHANGED <<reports, client, fixed, deductions>>

\* the columns of event_participants on which an insert conflicts
ParticipantKey(row) == <<row.eventId, row.userId>>

\* mutant of InsertParticipant: a plain insert, without onConflictDoNothing
InsertParticipant_plain(row) ==
    Append(eventParticipants, [id |-> Len(eventParticipants) + 1] @@ row)

\* db.insert(eventParticipants).values(row).onConflictDoNothing()
InsertParticipant(row) ==
    IF \E i \in 1..Len(eventParticipants) :
          ParticipantKey(eventParticipants[i]) = ParticipantKey(row)
    THEN eventParticipants
    ELSE Append(eventParticipants, [id |-> Len(eventParticipants) + 1] @@ row)

\* mutant of IncrementParticipants: the count is set to the number of
\* participant rows of the event
IncrementParticipants_counted(eventId) ==
    [e \in DOMAIN cleanupEvents |->
        IF e = eventId
        THEN [cleanupEvents[e] EXCEPT !.currentParticipants =
                Cardinality({i \in 1..Len(eventParticipants) :
                                eventParticipants[i].eventId = eventId})]
        ELSE cleanupEvents[e]]

\* db.update(cleanupEvents).set({currentParticipants: sql`currentParticipants + 1`})
\*   .where(eq(cleanupEvents.id, eventId))
IncrementParticipants(eventId) ==
    [e \in DOMAIN cleanupEvents |->
        IF e = eventId
        THEN [cleanupEvents[e] EXCEPT !.currentParticipants = @ + 1]
        ELSE cleanupEvents[e]]

\* joinCleanupEvent: the insert with conflict-skip
joinCleanupEvent_insert(p, eventId, userId) ==
    /\ CanStart(p)
    /\ Begin(p, [op |-> "joinCleanupEvent", eventId |-> eventId, userId |-> userId])
    /\ eventParticipants' = InsertParticipant([eventId |-> eventId, userId |-> userId])
    /\ local' = [local EXCEPT ![p] = NoLocal]
    /\ Await(p, "joinCleanupEvent_update")
    /\ UNCHANGED <<users, wasteEntries, rewards, userRewards, cleanupEvents,
                   userChallengeProgress, progressLog>>
    /\ UNCHANGED <<reports, client, fixed, deductions>>

\* joinCleanupEvent: the participant count update; return
joinCleanupEvent_update(p) ==
    /\ pc[p] = "joinCleanupEvent_update"
    /\ cleanupEvents' = IncrementParticipants(call[p].eventId)
    /\ Return(p, Ok(<<>>))
    /\ UNCHANGED <<users, wasteEntries, rewards, userRewards, eventParticipants,
                   userChallengeProgress, call, local, progressLog, calls>>
    /\ UNCHANGED <<reports, client, fixed, deductions>>

\* -------------------------------------------------------------- challenges
\* target: [userChallengeProgress.userId, userChallengeProgress.challengeId]
ProgressTarget(row) == <<row.userId, row.challengeId>>

\* mutant of UpsertProgress: on conflict the progress is overwritten, not added
UpsertProgress_overwrite(userId, challengeId, progress) ==
    LET row == [userId |-> userId, challengeId |-> challengeId, currentProgress |-> progress]
        conflicts == {i \in 1..Len(userChallengeProgress) :
                         ProgressTarget(userChallengeProgress[i]) = ProgressTarget(row)}
    IN  IF conflicts = {}
        THEN Append(userChallengeProgress, [id |-> Len(userChallengeProgress) + 1] @@ row)
        ELSE [i \in 1..Len(userChallengeProgress) |->
                IF i \in conflicts
                THEN [userChallengeProgress[i] EXCEPT !.currentProgress = progress]
                ELSE userChallengeProgress[i]]

\* db.insert(userChallengeProgress).values({userId, challengeId, currentProgress: progress})
\*   .onConflictDoUpdate({target, set: {currentProgress: sql`currentProgress + progress`}})
UpsertProgress(userId, challengeId, progress) ==
    LET row == [userId |-> userId, challengeId |-> challengeId, currentProgress |-> progress]
        conflicts == {i \in 1..Len(userChallengeProgress) :
                         ProgressTarget(userChallengeProgress[i]) = ProgressTarget(row)}
    IN  IF conflicts = {}
        THEN Append(userChallengeProgress, [id |-> Len(userChallengeProgress) + 1] @@ row)
        ELSE [i \in 1..Len(userChallengeProgress) |->
                IF i \in conflicts
                THEN [userChallengeProgress[i] EXCEPT !.currentProgress = @ + progress]
                ELSE userChallengeProgress[i]]

updateChallengeProgress(p, userId, challengeId, progress) ==
    /\ CanStart(p)
    /\ Begin(p, [op |-> "updateChallengeProgress", userId |-> userId,
                 challengeId |-> challengeId, progress |-> progress])
    /\ userChallengeProgress' = UpsertProgress(userId, challengeId, progress)
    /\ progressLog' = Append(progressLog, <<userId, challengeId, progress>>)
    /\ local' = [local EXCEPT ![p] = NoLocal]
    /\ Return(p, Ok(<<>>))
    /\ UNCHANGED <<users, wasteEntries, rewards, userRewards, cleanupEvents,
                   eventParticipants>>
    /\ UNCHANGED <<reports, client, fixed, deductions>>

\* ------------------------------------------------------------------ numbers
\* A string the program parses (a numeric column's text, the quiz topic) is the
\* sequence of its characters; a string it only builds or compares is a string.
\* A JavaScript value is a record with its typeof as type. A Number is
\*   [type |-> "number", class, negative, bits, exponent]
\* of class "NaN", "Infinity" or "finite"; a finite Number other than 0 has the
\* DoubleBits bits of its significand, the first of them 1, and the value
\* bits[1].bits[2]... * 2^exponent (a subnormal ends in zeros); 0 has no bits.
\* The arithmetic on [bits, exponent] is that of the magnitudes.
DoubleBits == 53
MaxExponent == 2 ^ 10 - 1
MinExponent == 2 - 2 ^ 10

\* StrWhiteSpaceChar, the white space parseFloat skips and trim strips: TAB,
\* LF, VT, FF, CR, SP, NBSP, ZWNBSP, the line and paragraph separators and the
\* space separators. A character a module cannot hold is written by its code
\* point.
Whitespace ==
    {"\t", "\n", "", "\f", "\r", " ", " ", "﻿", " ",
     "U+000B", "U+00A0", "U+FEFF", "U+1680",
     "U+2000", "U+2001", "U+2002", "U+2003", "U+2004", "U+2005", "U+2006", "U+2007",
     "U+2008", "U+2009", "U+200A", "U+2028", "U+2029", "U+202F", "U+205F", "U+3000"}

RECURSIVE trimStart(_)
trimStart(s) == IF s # <<>> /\ s[1] \in Whitespace THEN trimStart(Tail(s)) ELSE s

RECURSIVE trimEnd(_)
trimEnd(s) ==
    IF s # <<>> /\ s[Len(s)] \in Whitespace THEN trimEnd(SubSeq(s, 1, Len(s) - 1)) ELSE s

\* String.prototype.trim
trim(s) == trimEnd(trimStart(s))

\* a natural number of any size is the sequence of its limbs of LimbBits bits,
\* the least significant first and the last not 0
LimbBits == (DoubleBits - 1) \div 4
Base == 2 ^ LimbBits

\* the limbs of a but the zeros it ends with
Significant(a) ==
    SubSeq(a, 1, Len(a) - Cardinality({i \in 1..Len(a) : \A j \in i..Len(a) : a[j] = 0}))

\* a without the limbs 0 it ends with
Normal(a) == IF a = <<>> THEN <<>> ELSE Significant(SubSeq(a, 1, Len(a)))

RECURSIVE NatOf(_)
NatOf(n) == IF n = 0 THEN <<>> ELSE <<n % Base>> \o NatOf(n \div Base)

Limb(a, i) == IF i <= Len(a) THEN a[i] ELSE 0

\* the carry into limb i of the sum of two numbers whose limbs add up to s: the
\* nearest limb below that is not Base - 1 decides it
Carry(s, i) ==
    IF \E j \in 1..(i - 1) : s[j] >= Base /\ \A k \in (j + 1)..(i - 1) : s[k] = Base - 1
    THEN 1 ELSE 0

\* the number of the limb sums s
Carried(s) ==
    IF s = <<>> THEN <<>>
    ELSE
    Normal([i \in 1..(Len(s) + 1) |->
              IF i <= Len(s) THEN (s[i] + Carry(s, i)) % Base ELSE Carry(s, i)])

NatPlus(a, b) ==
    IF a = <<>> THEN b
    ELSE IF b = <<>> THEN a
    ELSE
    Carried([i \in 1..(IF Len(a) < Len(b) THEN Len(b) ELSE Len(a)) |-> Limb(a, i) + Limb(b, i)])

\* the borrow from limb i of a difference whose limbs differ by d
Borrow(d, i) ==
    IF \E j \in 1..(i - 1) : d[j] < 0 /\ \A k \in (j + 1)..(i - 1) : d[k] = 0
    THEN 1 ELSE 0

\* the number of the limb differences d
Borrowed(d) == IF d = <<>> THEN <<>> ELSE Normal([i \in 1..Len(d) |-> (Base + d[i] - Borrow(d, i)) % Base])

\* a - b for a >= b
NatMinus(a, b) == IF b = <<>> THEN a ELSE Borrowed([i \in 1..Len(a) |-> a[i] - Limb(b, i)])

NatLess(a, b) ==
    IF Len(a) # Len(b) THEN Len(a) < Len(b)
    ELSE \E i \in 1..Len(a) : a[i] < b[i] /\ \A j \in (i + 1)..Len(a) : a[j] = b[j]

\* a * n for 0 <= n <= Base: the low limbs of the products and, one limb up,
\* the high limbs
NatTimes(a, n) ==
    IF a = <<>> \/ n = 0 THEN <<>>
    ELSE
    NatPlus([i \in 1..Len(a) |-> (a[i] * n) % Base],
            <<0>> \o [i \in 1..Len(a) |-> (a[i] * n) \div Base])

\* a * 2^k
NatShift(a, k) ==
    IF a = <<>> THEN a
    ELSE [i \in 1..(k \div LimbBits) |-> 0] \o NatTimes(a, 2 ^ (k % LimbBits))

RECURSIVE NatDivideFrom(_, _, _, _)
\* the limbs 1..i of the quotient, r the remainder of the limbs above
NatDivideFrom(a, n, i, r) ==
    IF i = 0 THEN <<>>
    ELSE Append(NatDivideFrom(a, n, i - 1, (r * Base + a[i]) % n),
                (r * Base + a[i]) \div n)

\* a \div n for 0 < n <= Base
NatDivide(a, n) == Normal(NatDivideFrom(a, n, Len(a), 0))

RECURSIVE NatRemainderFrom(_, _, _, _)
NatRemainderFrom(a, n, i, r) ==
    IF i = 0 THEN r ELSE NatRemainderFrom(a, n, i - 1, (r * Base + a[i]) % n)

\* a % n for 0 < n <= Base
NatRemainder(a, n) == NatRemainderFrom(a, n, Len(a), 0)

\* the bits of a limb, the most significant first
Binary(n) ==
    LET k == Cardinality({j \in 0..(LimbBits - 1) : 2 ^ j <= n})
    IN  SubSeq([i \in 1..k |-> (n \div 2 ^ (k - i)) % 2], 1, k)

RECURSIVE BitsValue(_)
\* the natural number of the bits
BitsValue(bits) ==
    IF bits = <<>> THEN 0
    ELSE IF Len(bits) = 1 THEN bits[1]
    ELSE BitsValue(SubSeq(bits, 1, Len(bits) \div 2)) * 2 ^ (Len(bits) - Len(bits) \div 2)
         + BitsValue(SubSeq(bits, Len(bits) \div 2 + 1, Len(bits)))

\* the bits of a, the first of them 1
NatBits(a) ==
    IF a = <<>> THEN <<>>
    ELSE Binary(a[Len(a)])
         \o [i \in 1..((Len(a) - 1) * LimbBits) |->
               (a[Len(a) - 1 - (i - 1) \div LimbBits]
                  \div (2 ^ (LimbBits - 1 - ((i - 1) % LimbBits)))) % 2]

\* the natural number of any number of bits
BitsNat(bits) ==
    Normal([j \in 1..((Len(bits) + LimbBits - 1) \div LimbBits) |->
              BitsValue(SubSeq(bits, IF Len(bits) - j * LimbBits + 1 < 1 THEN 1
                                     ELSE Len(bits) - j * LimbBits + 1,
                               Len(bits) - (j - 1) * LimbBits))])

BitLength(a) == IF a = <<>> THEN 0 ELSE (Len(a) - 1) * LimbBits + Len(Binary(a[Len(a)]))

\* bits, lengthened with zeros to n bits
Pad(bits, n) == bits \o [i \in 1..(n - Len(bits)) |-> 0]

\* the bits of the number one greater
Increment(bits) ==
    LET zeros == {i \in 1..Len(bits) : bits[i] = 0}
    IN  IF zeros = {} THEN <<1>> \o [i \in 1..Len(bits) |-> 0]
        ELSE LET last == CHOOSE i \in zeros : \A j \in zeros : j <= i
             IN  [i \in 1..Len(bits) |-> IF i < last THEN bits[i] ELSE IF i = last THEN 1 ELSE 0]

\* the bits a double keeps of a value whose first bit has the exponent: all
\* DoubleBits of them, fewer below the least normal number
Precision(exponent) ==
    IF exponent < MinExponent THEN DoubleBits - (MinExponent - exponent) ELSE DoubleBits

\* round to nearest, ties to even: the magnitude nearest the exact value
\* bits[1].bits[2]... * 2^exponent, sticky telling that the exact value has
\* further non-zero bits
RoundNearestEven(bits, sticky, exponent) ==
    IF Precision(exponent) < 0 THEN [bits |-> <<>>, exponent |-> 0]
    ELSE LET kept == SubSeq(bits, 1, Precision(exponent))
             rest == SubSeq(bits, Precision(exponent) + 1, Len(bits))
             guard == rest # <<>> /\ rest[1] = 1
             below == sticky \/ \E i \in 2..Len(rest) : rest[i] = 1
             up == guard /\ (below \/ (kept # <<>> /\ kept[Len(kept)] = 1))
             rounded == IF up THEN Increment(kept) ELSE kept
         IN  IF Len(rounded) > Len(kept)
             THEN [bits |-> Pad(<<1>>, DoubleBits), exponent |-> exponent + 1]
             ELSE IF \A i \in 1..Len(rounded) : rounded[i] = 0
             THEN [bits |-> <<>>, exponent |-> 0]
             ELSE [bits |-> Pad(rounded, DoubleBits), exponent |-> exponent]

\* the magnitude of a natural number
OfNat(a) ==
    IF a = <<>> THEN [bits |-> <<>>, exponent |-> 0]
    ELSE RoundNearestEven(Pad(NatBits(a), DoubleBits), FALSE, BitLength(a) - 1)

\* a \div 2^k
NatShiftRight(a, k) == IF k = 0 THEN a ELSE BitsNat(SubSeq(NatBits(a), 1, BitLength(a) - k))

\* the limb q of the quotient r \div t, for r < t * Base and the last limb of t
\* Base / 2 or more: the two limbs of r above those of t, divided by the last
\* limb of t, are the limb or up to two more
QuotientLimb(r, t) ==
    LET top == (Limb(r, Len(t) + 1) * Base + Limb(r, Len(t))) \div t[Len(t)]
        q == IF top >= Base THEN Base - 1 ELSE top
    IN  IF ~NatLess(r, NatTimes(t, q)) THEN q
        ELSE IF ~NatLess(r, NatTimes(t, q - 1)) THEN q - 1
        ELSE q - 2

\* a limb below the limbs of a
Below(limb, a) == IF a = <<>> /\ limb = 0 THEN <<>> ELSE <<limb>> \o a

\* the quotient and the remainder found, after the limb q that r holds of t
LongDivideLimb(found, r, t, q) ==
    [quotient |-> Below(q, found.quotient), remainder |-> NatMinus(r, NatTimes(t, q))]

RECURSIVE LongDivide(_, _, _, _)
\* a \div t and the remainder, by the limbs i..1 of a; found are the quotient
\* and the remainder of the limbs above i
LongDivide(a, t, i, found) ==
    IF i = 0 THEN found
    ELSE IF found.remainder = <<>> /\ a[i] = 0
    THEN LongDivide(a, t, i - 1, [found EXCEPT !.quotient = Below(0, @)])
    ELSE LongDivide(a, t, i - 1,
                    LongDivideLimb(found, Below(a[i], found.remainder), t,
                                   QuotientLimb(Below(a[i], found.remainder), t)))

\* what has to be added to n to reach a multiple of LimbBits
Fill(n) == (LimbBits - (n % LimbBits)) % LimbBits

\* a \div t, and the remainder times a power of 2, for t > 0
NatDivMod(a, t) ==
    LongDivide(NatShift(a, Fill(BitLength(t))), NatShift(t, Fill(BitLength(t))),
               Len(NatShift(a, Fill(BitLength(t)))), [quotient |-> <<>>, remainder |-> <<>>])

\* the magnitude whose bits are those of a quotient, exact or not, times 2^exponent
Rounded(quotient, exact, exponent) ==
    RoundNearestEven(NatBits(quotient), ~exact, exponent + BitLength(quotient) - 1)

\* the magnitude of a / (t * 2^k), of which a \div 2^drop is divided, for a
\* quotient of more than DoubleBits bits
Quotient(a, t, k, drop) ==
    Rounded(NatDivMod(NatShiftRight(a, drop), t).quotient,
            /\ NatDivMod(NatShiftRight(a, drop), t).remainder = <<>>
            /\ NatShift(NatShiftRight(a, drop), drop) = a,
            drop - k)

\* the magnitude of c / t for natural numbers c and t > 0
NatQuotient(c, t) ==
    IF c = <<>> THEN [bits |-> <<>>, exponent |-> 0]
    ELSE IF DoubleBits + 2 + BitLength(t) - BitLength(c) >= 0
    THEN Quotient(NatShift(c, DoubleBits + 2 + BitLength(t) - BitLength(c)), t,
                  DoubleBits + 2 + BitLength(t) - BitLength(c), 0)
    ELSE Quotient(c, t, 0, BitLength(c) - BitLength(t) - DoubleBits - 2)

\* c / t of two integers 0 <= c, 0 < t
Divide(c, t) == NatQuotient(NatOf(c), NatOf(t))

\* x * n for a magnitude x and an integer 0 < n <= Base
Multiply(x, n) ==
    IF x.bits = <<>> THEN x
    ELSE LET product == NatBits(NatTimes(BitsNat(x.bits), n))
         IN  RoundNearestEven(product, FALSE, x.exponent + Len(product) - DoubleBits)

\* Math.round(x) for a magnitude x < 2^31: the nearest integer, a half going up
MathRound(x) ==
    IF x.bits = <<>> \/ x.exponent < 0 - 1 THEN 0
    ELSE IF x.exponent = 0 - 1 THEN 1
    ELSE BitsValue(SubSeq(x.bits, 1, x.exponent + 1))
         + (IF x.exponent + 2 <= DoubleBits THEN x.bits[x.exponent + 2] ELSE 0)

NaN == [type |-> "number", class |-> "NaN", negative |-> FALSE, bits |-> <<>>, exponent |-> 0]

Infinity(negative) ==
    [type |-> "number", class |-> "Infinity", negative |-> negative, bits |-> <<>>,
     exponent |-> 0]

\* the Number of a sign and a magnitude, which is Infinity when too large
Finite(negative, x) ==
    IF x.exponent > MaxExponent THEN Infinity(negative)
    ELSE [type |-> "number", class |-> "finite", negative |-> negative, bits |-> x.bits,
          exponent |-> x.exponent]

Zero == Finite(FALSE, [bits |-> <<>>, exponent |-> 0])

IsZero(x) == x.class = "finite" /\ x.bits = <<>>

\* the significand of a finite Number, scaled to the exponent e of its last bit
Scaled(x, e) == NatShift(BitsNat(x.bits), x.exponent - (DoubleBits - 1) - e)

\* x + y of two finite Numbers other than 0
AddFinite(x, y) ==
    LET e == (IF x.exponent < y.exponent THEN x.exponent ELSE y.exponent) - (DoubleBits - 1)
        a == Scaled(x, e)
        b == Scaled(y, e)
        sum == IF x.negative = y.negative THEN NatPlus(a, b)
               ELSE IF NatLess(a, b) THEN NatMinus(b, a) ELSE NatMinus(a, b)
        negative == IF x.negative = y.negative THEN x.negative
                    ELSE IF NatLess(a, b) THEN y.negative ELSE x.negative
    IN  IF sum = <<>> THEN Zero
        ELSE Finite(negative,
                    RoundNearestEven(Pad(NatBits(sum), DoubleBits), FALSE,
                                     e + BitLength(sum) - 1))

\* x + y of two Numbers
Add(x, y) ==
    IF x.class = "NaN" \/ y.class = "NaN" THEN NaN
    ELSE IF x.class = "Infinity" /\ y.class = "Infinity"
    THEN IF x.negative = y.negative THEN x ELSE NaN
    ELSE IF x.class = "Infinity" THEN x
    ELSE IF y.class = "Infinity" THEN y
    ELSE IF IsZero(x) /\ IsZero(y)
    THEN Finite(x.negative /\ y.negative, [bits |-> <<>>, exponent |-> 0])
    ELSE IF IsZero(x) THEN y
    ELSE IF IsZero(y) THEN x
    ELSE AddFinite(x, y)

DigitChars == {"0", "1", "2", "3", "4", "5", "6", "7", "8", "9"}

DigitValue(c) ==
    CASE c = "0" -> 0 [] c = "1" -> 1 [] c = "2" -> 2 [] c = "3" -> 3 [] c = "4" -> 4
      [] c = "5" -> 5 [] c = "6" -> 6 [] c = "7" -> 7 [] c = "8" -> 8 [] c = "9" -> 9

\* how many digits s holds from position i on
DigitRun(s, i) ==
    Cardinality({j \in i..Len(s) : \A k \in i..j : s[k] \in DigitChars})

RECURSIVE TimesPow10(_, _)
\* a * 10^k, by halves of k
TimesPow10(a, k) ==
    IF a = <<>> THEN a
    ELSE IF k <= 3 THEN NatTimes(a, 10 ^ k)
    ELSE TimesPow10(TimesPow10(a, k \div 2), k - k \div 2)

RECURSIVE DigitsNat(_, _, _, _)
\* the natural number that a and then the decimal digits i..j write, by halves
\* of i..j
DigitsNat(digits, i, j, a) ==
    IF a = <<>> /\ \A k \in i..j : digits[k] = 0 THEN a
    ELSE IF i = j THEN NatPlus(NatTimes(a, 10), NatOf(digits[i]))
    ELSE DigitsNat(digits, (i + j) \div 2 + 1, j, DigitsNat(digits, i, (i + j) \div 2, a))

\* the natural number the decimal digits write
DecimalNat(digits) == DigitsNat(digits, 1, Len(digits), <<>>)

\* the digits without the zeros they start with
StripZeros(digits) ==
    SubSeq(digits, 1 + Cardinality({i \in 1..Len(digits) : \A j \in 1..i : digits[j] = 0}),
           Len(digits))

\* 0.digits * 10^n is beyond every double when n is above LargestDecimal and
\* rounds to 0 when n is below LeastDecimal
LargestDecimal == (MaxExponent + 1) \div 3 + 1
LeastDecimal == 0 - ((MaxExponent + DoubleBits) \div 3 + 1)

\* the magnitude nearest 0.digits * 10^n, the first digit not 0
OfDecimal(digits, n) ==
    IF digits = <<>> \/ n < LeastDecimal THEN [bits |-> <<>>, exponent |-> 0]
    ELSE IF n > LargestDecimal THEN [bits |-> <<1>>, exponent |-> MaxExponent + 1]
    ELSE IF n >= Len(digits)
    THEN OfNat(TimesPow10(DecimalNat(digits), n - Len(digits)))
    ELSE NatQuotient(DecimalNat(digits), TimesPow10(NatOf(1), Len(digits) - n))

\* whether s holds the characters of prefix from position i on
HasAt(s, i, prefix) ==
    /\ i + Len(prefix) - 1 <= Len(s)
    /\ \A j \in 1..Len(prefix) : s[i + j - 1] = prefix[j]

RECURSIVE DigitsValue(_)
\* the integer the digits write
DigitsValue(digits) ==
    IF digits = <<>> THEN 0
    ELSE DigitsValue(SubSeq(digits, 1, Len(digits) - 1)) * 10 + digits[Len(digits)]

\* a string has fewer than 2^30 characters: with an exponent of MaxPower or
\* more, no mantissa other than 0 gives a double
MaxPower == 2 * 10 ^ 9

\* the exponent the n digits of s from position i on write, or MaxPower when
\* they write more
ExponentValue(s, i, n) ==
    LET digits == StripZeros([j \in 1..n |-> DigitValue(s[i + j - 1])])
    IN  IF Len(digits) > 10 \/ (Len(digits) = 10 /\ digits[1] >= 2) THEN MaxPower
        ELSE DigitsValue(digits)

\* the place of the first digit of a mantissa whose first digit is at place
\* position, under the exponent power
Shifted(position, power) ==
    IF power >= MaxPower THEN LargestDecimal + 1
    ELSE IF 0 - power >= MaxPower THEN LeastDecimal - 1
    ELSE position + power

\* parseFloat(s): the Number of the longest prefix of s, after its leading white
\* space, that is a StrDecimalLiteral; NaN when there is none
parseFloat(s) ==
    LET t == trimStart(s)
        signed == t # <<>> /\ t[1] \in {"+", "-"}
        negative == t # <<>> /\ t[1] = "-"
        u == IF signed THEN Tail(t) ELSE t
        whole == DigitRun(u, 1)
        point == whole < Len(u) /\ u[whole + 1] = "."
        fraction == IF point THEN DigitRun(u, whole + 2) ELSE 0
        mantissa == whole + fraction + (IF point THEN 1 ELSE 0)
        marked == mantissa < Len(u) /\ u[mantissa + 1] \in {"e", "E"}
        minus == marked /\ mantissa + 1 < Len(u) /\ u[mantissa + 2] = "-"
        skip == IF marked /\ mantissa + 1 < Len(u) /\ u[mantissa + 2] \in {"+", "-"}
                THEN 2 ELSE 1
        run == IF marked THEN DigitRun(u, mantissa + skip + 1) ELSE 0
        power == IF run = 0 THEN 0
                 ELSE IF minus THEN 0 - ExponentValue(u, mantissa + skip + 1, run)
                 ELSE ExponentValue(u, mantissa + skip + 1, run)
        all == [j \in 1..(whole + fraction) |->
                  DigitValue(u[IF j <= whole THEN j ELSE j + 1])]
        digits == StripZeros(all)
    IN  IF HasAt(u, 1, <<"I", "n", "f", "i", "n", "i", "t", "y">>) THEN Infinity(negative)
        ELSE IF whole + fraction = 0 THEN NaN
        ELSE Finite(negative, OfDecimal(digits, Shifted(Len(digits) - fraction, power)))

DigitText(d) ==
    CASE d = 0 -> "0" [] d = 1 -> "1" [] d = 2 -> "2" [] d = 3 -> "3" [] d = 4 -> "4"
      [] d = 5 -> "5" [] d = 6 -> "6" [] d = 7 -> "7" [] d = 8 -> "8" [] d = 9 -> "9"

RECURSIVE DigitsText(_)
DigitsText(digits) ==
    IF digits = <<>> THEN "" ELSE DigitText(Head(digits)) \o DigitsText(Tail(digits))

RECURSIVE IntDigits(_)
\* the decimal digits of an integer n >= 0
IntDigits(n) == IF n < 10 THEN <<n>> ELSE Append(IntDigits(n \div 10), n % 10)

RECURSIVE NatDigits(_)
\* the decimal digits of a natural number
NatDigits(a) ==
    IF a = <<>> THEN <<>>
    ELSE IF Len(a) = 1 /\ a[1] < 10 THEN a
    ELSE Append(NatDigits(NatDivide(a, 10)), NatRemainder(a, 10))

\* the digits without the zeros they end with
StripZerosEnd(digits) ==
    SubSeq(digits, 1,
           Len(digits) - Cardinality({i \in 1..Len(digits) :
                                        \A j \in i..Len(digits) : digits[j] = 0}))

\* a double is told from every other by MaxDigits digits
MaxDigits == (DoubleBits + 1) \div 3 - 1

\* 2^e is 10^Log10(e) or more, and less than a hundred times it
Log10(e) == (e * 30103) \div (10 ^ 5)

\* the decimal expansion 0.digits * 10^n of a magnitude other than 0: its first
\* digits, more than MaxDigits of them, and whether more that are not 0 follow
Expansion(x) ==
    LET q == x.exponent - (DoubleBits - 1)
        s == MaxDigits + 1 - Log10(x.exponent)
        a == TimesPow10(NatShift(BitsNat(x.bits), IF q > 0 THEN q ELSE 0), IF s > 0 THEN s ELSE 0)
        b == TimesPow10(NatShift(NatOf(1), IF q < 0 THEN 0 - q ELSE 0), IF s < 0 THEN 0 - s ELSE 0)
        whole == NatDivMod(a, b)
        digits == NatDigits(whole.quotient)
    IN  [digits |-> digits, n |-> Len(digits) - s, below |-> whole.remainder # <<>>]

\* the digits of the decimal one greater in its last digit
IncrementDigits(digits) ==
    LET low == {i \in 1..Len(digits) : digits[i] # 9}
    IN  IF low = {} THEN <<1>> \o [i \in 1..Len(digits) |-> 0]
        ELSE LET last == CHOOSE i \in low : \A j \in low : j <= i
             IN  [i \in 1..Len(digits) |->
                    IF i < last THEN digits[i] ELSE IF i = last THEN digits[i] + 1 ELSE 0]

\* whether the decimal of k digits nearest the expansion e is the one above it
RoundsUp(e, k) ==
    \/ e.digits[k + 1] > 5
    \/ /\ e.digits[k + 1] = 5
       /\ \/ e.below
          \/ \E i \in (k + 2)..Len(e.digits) : e.digits[i] # 0
          \/ e.digits[k] % 2 = 1

\* the decimal of k digits next to the expansion e, above it or not above it,
\* without the zeros it ends with
KeptDigits(e, k, up) ==
    LET kept == SubSeq(e.digits, 1, k)
        rounded == IF up THEN IncrementDigits(kept) ELSE kept
    IN  [digits |-> StripZerosEnd(rounded), n |-> IF Len(rounded) > k THEN e.n + 1 ELSE e.n]

\* the decimal of k digits nearest the expansion e
RoundDigits(e, k) == KeptDigits(e, k, RoundsUp(e, k))

\* the decimal of k digits on the other side of the expansion e
Neighbour(e, k) == KeptDigits(e, k, ~RoundsUp(e, k))

\* the Number of the decimal d is x
ReadsAs(d, x) == OfDecimal(d.digits, d.n) = x

RECURSIVE Shortest(_, _, _)
\* the decimal of the fewest digits, k or more, whose Number is x: the nearest
\* to x of those that many digits write
Shortest(x, e, k) ==
    IF k >= MaxDigits \/ ReadsAs(RoundDigits(e, k), x) THEN RoundDigits(e, k)
    ELSE IF ReadsAs(Neighbour(e, k), x) THEN Neighbour(e, k)
    ELSE Shortest(x, e, k + 1)

\* Number::toString of the decimal 0.digits * 10^n a magnitude prints as
DecimalText(digits, n) ==
    IF Len(digits) <= n /\ n <= 21
    THEN DigitsText(digits \o [i \in 1..(n - Len(digits)) |-> 0])
    ELSE IF 0 < n /\ n <= 21
    THEN DigitsText(SubSeq(digits, 1, n)) \o "." \o DigitsText(SubSeq(digits, n + 1, Len(digits)))
    ELSE IF 0 - 6 < n /\ n <= 0
    THEN "0." \o DigitsText([i \in 1..(0 - n) |-> 0] \o digits)
    ELSE DigitsText(<<digits[1]>>)
         \o (IF Len(digits) = 1 THEN "" ELSE "." \o DigitsText(Tail(digits)))
         \o (IF n - 1 < 0 THEN "e-" \o DigitsText(IntDigits(1 - n))
             ELSE "e+" \o DigitsText(IntDigits(n - 1)))

\* Number::toString(x)
NumberToString(x) ==
    IF x.class = "NaN" THEN "NaN"
    ELSE IF x.class = "Infinity" THEN (IF x.negative THEN "-Infinity" ELSE "Infinity")
    ELSE IF x.bits = <<>> THEN "0"
    ELSE LET m == [bits |-> x.bits, exponent |-> x.exponent]
             d == Shortest(m, Expansion(m), 1)
         IN  (IF x.negative THEN "-" ELSE "") \o DecimalText(d.digits, d.n)

\* ---------------------------------------------------------------- analytics
\* db.select().from(wasteEntries).where(eq(wasteEntries.userId, userId))
SelectWasteEntries(userId) == SelectSeq(wasteEntries, LAMBDA e : e.userId = userId)

\* the values other than Numbers: a string is [type |-> "string", text]
Undefined == [type |-> "undefined"]

StringOf(text) == [type |-> "string", text |-> text]

\* the functions every object inherits from Object.prototype, by property
ObjectPrototypeFunctions ==
    {"constructor", "hasOwnProperty", "isPrototypeOf", "propertyIsEnumerable",
     "toLocaleString", "toString", "valueOf", "__defineGetter__", "__defineSetter__",
     "__lookupGetter__", "__lookupSetter__"}

\* acc[key] of the object {} whose own properties are acc: an own property, or
\* what Object.prototype has under the key
Get(acc, key) ==
    IF key \in DOMAIN acc THEN acc[key]
    ELSE IF key = "__proto__" THEN [type |-> "object"]
    ELSE IF key \in ObjectPrototypeFunctions
    THEN [type |-> "function", name |-> IF key = "constructor" THEN "Object" ELSE key]
    ELSE Undefined

\* acc[key] = value of a Number or a string: the setter of __proto__ ignores
\* it, any other key becomes an own property
Set(acc, key, value) == IF key = "__proto__" THEN acc ELSE (key :> value) @@ acc

ToBoolean(v) ==
    CASE v.type = "undefined" -> FALSE
      [] v.type = "number" -> ~(v.class = "NaN" \/ IsZero(v))
      [] v.type = "string" -> v.text # ""
      [] OTHER -> TRUE

\* v || 0
OrZero(v) == IF ToBoolean(v) THEN v ELSE Zero

\* the string that ToPrimitive gives of a string, a native function or
\* Object.prototype
PrimitiveText(v) ==
    CASE v.type = "string" -> v.text
      [] v.type = "function" -> "function " \o v.name \o "() { [native code] }"
      [] v.type = "object" -> "[object Object]"

\* v + x for a Number x: the sum of two Numbers, and the concatenation with
\* the string of x otherwise
Plus(v, x) ==
    IF v.type = "number" THEN Add(v, x) ELSE StringOf(PrimitiveText(v) \o NumberToString(x))

\* one step of the reduce: acc[entry.wasteType] = (acc[entry.wasteType] || 0) + parseFloat(entry.quantity)
WasteByTypeStep(acc, entry) ==
    Set(acc, entry.wasteType,
        Plus(OrZero(Get(acc, entry.wasteType)), parseFloat(entry.quantity)))

\* wasteEntriesData.reduce(..., {}) from entry i on
RECURSIVE WasteByType(_, _, _)
WasteByType(rows, i, acc) ==
    IF i > Len(rows) THEN acc ELSE WasteByType(rows, i + 1, WasteByTypeStep(acc, rows[i]))

\* the ecoPointsEarned of the rows, summed
RECURSIVE EarnedByRows(_)
EarnedByRows(rows) ==
    IF rows = <<>> THEN 0 ELSE Head(rows).ecoPointsEarned + EarnedByRows(Tail(rows))

\* user?.carbonFootprint || "0": there is no row, the column is NULL (a field
\* the row lacks) or the text is empty
CarbonFootprintOrZero(user) ==
    IF user = <<>> THEN <<"0">>
    ELSE IF "carbonFootprint" \notin DOMAIN user[1] THEN <<"0">>
    ELSE IF user[1].carbonFootprint = <<>> THEN <<"0">>
    ELSE user[1].carbonFootprint

\* mutant of AnalyticsResult: totalEcoPoints is summed from the entries
AnalyticsResult_recomputed(user, wasteEntriesData) ==
    [totalWasteEntries |-> Len(wasteEntriesData),
     totalEcoPoints |-> EarnedByRows(wasteEntriesData),
     wasteByType |-> WasteByType(wasteEntriesData, 1, <<>>),
     carbonFootprint |-> parseFloat(CarbonFootprintOrZero(user))]

\* return { totalWasteEntries: wasteEntriesData.length,
\*          totalEcoPoints: user?.ecoPoints || 0, wasteByType,
\*          carbonFootprint: parseFloat(user?.carbonFootprint || "0") }
AnalyticsResult(user, wasteEntriesData) ==
    [totalWasteEntries |-> Len(wasteEntriesData),
     totalEcoPoints |-> IF user = <<>> THEN 0 ELSE EcoPointsOrZero(user[1]),
     wasteByType |-> WasteByType(wasteEntriesData, 1, <<>>),
     carbonFootprint |-> parseFloat(CarbonFootprintOrZero(user))]

\* getUserAnalytics: select the user row
getUserAnalytics_selectUser(p, userId) ==
    /\ Idle(p)
    /\ call' = [call EXCEPT ![p] = [op |-> "getUserAnalytics", userId |-> userId]]
    /\ local' = [local EXCEPT ![p] = [NoLocal EXCEPT !.user = SelectUser(userId)]]
    /\ pc' = [pc EXCEPT ![p] = "getUserAnalytics_selectEntries"]
    /\ result' = [result EXCEPT ![p] = NoResult]
    /\ UNCHANGED <<tables, pre, progressLog, calls>>
    /\ UNCHANGED <<reports, client, fixed, deductions>>

\* getUserAnalytics: select the user's waste entries, aggregate, return
getUserAnalytics_selectEntries(p) ==
    /\ pc[p] = "getUserAnalytics_selectEntries"
    /\ LET user == local[p].user
           wasteEntriesData == SelectWasteEntries(call[p].userId)
       IN  Return(p, Ok(AnalyticsResult(user, wasteEntriesData)))
    /\ UNCHANGED <<tables, call, local, progressLog, calls>>
    /\ UNCHANGED <<reports, client, fixed, deductions>>

\* ------------------------------------------------------------------- reads
\* a method that is one select statement: request p calls it and is returned rows
Read(p, c, rows) ==
    /\ Idle(p)
    /\ call' = [call EXCEPT ![p] = c]
    /\ result' = [result EXCEPT ![p] = Ok(rows)]
    /\ UNCHANGED <<tables, pc, local, pre, progressLog, calls, reports, client, fixed,
                   deductions>>

\* the rows of the set S in ascending order of ecoPointsCost
RECURSIVE OrderByCost(_)
OrderByCost(S) ==
    IF S = {} THEN <<>>
    ELSE LET first == CHOOSE r \in S : \A s \in S : r.ecoPointsCost <= s.ecoPointsCost
         IN  <<first>> \o OrderByCost(S \ {first})

\* db.select().from(rewards).where(eq(rewards.isActive, true)).orderBy(rewards.ecoPointsCost)
SelectAvailableRewards ==
    OrderByCost({rewards[r] : r \in {r \in DOMAIN rewards : rewards[r].isActive = TRUE}})

getAvailableRewards(p) ==
    Read(p, [op |-> "getAvailableRewards"], SelectAvailableRewards)

\* the time a row was inserted (createdAt, redeemedAt: set by the database at
\* the insert), in ticks of one insert per table: the row's serial id
InsertedAt(row) == row.id

\* the pairs <<row[field], row>> of the rows
Keyed(rows, field) == [i \in 1..Len(rows) |-> <<rows[i][field], rows[i]>>]

\* the pairs <<InsertedAt(row), row>> of the rows
KeyedByInsert(rows) == [i \in 1..Len(rows) |-> <<InsertedAt(rows[i]), rows[i]>>]

\* .orderBy(key) / .orderBy(desc(key)) over pairs <<key, row>>: the rows by
\* ascending (descending) key, rows of equal key in the order given
RECURSIVE OrderBy(_, _)
OrderBy(pairs, descending) ==
    IF pairs = <<>> THEN <<>>
    ELSE LET Extreme(i) == \A j \in 1..Len(pairs) :
                              IF descending THEN pairs[i][1] >= pairs[j][1]
                                            ELSE pairs[i][1] <= pairs[j][1]
             i == CHOOSE i \in 1..Len(pairs) :
                     Extreme(i) /\ \A j \in 1..(i - 1) : ~Extreme(j)
             rest == [j \in 1..(Len(pairs) - 1) |-> IF j < i THEN pairs[j] ELSE pairs[j + 1]]
         IN  <<pairs[i][2]>> \o OrderBy(rest, descending)

\* .limit(n)
Limit(rows, n) == SubSeq(rows, 1, IF Len(rows) < n THEN Len(rows) ELSE n)

\* the rows of a table kept by id, in id order
RowsOf(table) == OrderBy([i \in 1..Cardinality(DOMAIN table) |->
                            LET id == CHOOSE id \in DOMAIN table :
                                        Cardinality({k \in DOMAIN table : k < id}) = i - 1
                            IN  <<id, table[id]>>], FALSE)

\* mutant of getUser: a user that is missing is created
getUser_orCreate(p, id) ==
    /\ Idle(p)
    /\ call' = [call EXCEPT ![p] = [op |-> "getUser", id |-> id]]
    /\ users' = IF id \in DOMAIN users THEN users
                ELSE (id :> [id |-> id, ecoPoints |-> 0, carbonFootprint |-> <<"0">>]) @@ users
    /\ result' = [result EXCEPT ![p] = Ok(<<users'[id]>>)]
    /\ UNCHANGED <<wasteEntries, rewards, userRewards, cleanupEvents, eventParticipants,
                   userChallengeProgress, pc, local, pre, progressLog, calls, reports,
                   client, fixed, deductions>>

\* const [user] = await db.select().from(users).where(eq(users.id, id)); return user
getUser(p, id) == Read(p, [op |-> "getUser", id |-> id], SelectUser(id))

\* .from(wasteEntries).where(eq(wasteEntries.userId, userId))
\*   .orderBy(desc(wasteEntries.createdAt))
getUserWasteEntries(p, userId) ==
    Read(p, [op |-> "getUserWasteEntries", userId |-> userId],
         OrderBy(KeyedByInsert(SelectWasteEntries(userId)), TRUE))

\* and(eq(userId), gte(createdAt, startDate), lte(createdAt, endDate))
getWasteEntriesByDateRange(p, userId, startDate, endDate) ==
    Read(p, [op |-> "getWasteEntriesByDateRange", userId |-> userId,
             startDate |-> startDate, endDate |-> endDate],
         OrderBy(KeyedByInsert(SelectSeq(wasteEntries,
                    LAMBDA e : /\ e.userId = userId
                               /\ InsertedAt(e) >= startDate
                               /\ InsertedAt(e) <= endDate)), TRUE))

\* .from(pickupSchedules).where(eq(pickupSchedules.userId, userId))
\*   .orderBy(desc(pickupSchedules.scheduledDate))
getUserPickupSchedules(p, userId) ==
    Read(p, [op |-> "getUserPickupSchedules", userId |-> userId],
         OrderBy(Keyed(SelectSeq(pickupSchedules, LAMBDA s : s.userId = userId),
                       "scheduledDate"), TRUE))

\* .from(communityReports).orderBy(desc(communityReports.createdAt)).limit(limit)
getCommunityReports(p, limit) ==
    Read(p, [op |-> "getCommunityReports", limit |-> limit],
         Limit(OrderBy(KeyedByInsert(communityReports), TRUE), limit))

\* and(eq(cleanupEvents.status, 'upcoming'), gte(cleanupEvents.eventDate, new Date()))
\*   .orderBy(cleanupEvents.eventDate)
getUpcomingCleanupEvents(p, now) ==
    Read(p, [op |-> "getUpcomingCleanupEvents"],
         OrderBy(Keyed(SelectSeq(RowsOf(cleanupEvents),
                          LAMBDA e : e.status = "upcoming" /\ e.eventDate >= now),
                       "eventDate"), FALSE))

\* .from(ecoChallenges).where(eq(ecoChallenges.isActive, true)).orderBy(ecoChallenges.endDate)
getActiveChallenges(p) ==
    Read(p, [op |-> "getActiveChallenges"],
         OrderBy(Keyed(SelectSeq(ecoChallenges, LAMBDA c : c.isActive = TRUE), "endDate"),
                 FALSE))

\* .from(userChallengeProgress).where(eq(userChallengeProgress.userId, userId))
\*   .orderBy(desc(userChallengeProgress.createdAt))
getUserChallengeProgress(p, userId) ==
    Read(p, [op |-> "getUserChallengeProgress", userId |-> userId],
         OrderBy(KeyedByInsert(SelectSeq(userChallengeProgress,
                                         LAMBDA r : r.userId = userId)), TRUE))

\* .from(userRewards).where(eq(userRewards.userId, userId))
\*   .orderBy(desc(userRewards.redeemedAt))
getUserRewards(p, userId) ==
    Read(p, [op |-> "getUserRewards", userId |-> userId],
         OrderBy(KeyedByInsert(SelectSeq(userRewards, LAMBDA r : r.userId = userId)), TRUE))

\* ------------------------------------------------------------------ client
MaxToasts == 3
MaxRequests == 2       \* requests of the mutations in flight at once

\* the errors a mutation's request fails with, by HTTP status
ClientErrors == {[status |-> 401], [status |-> 403], [status |-> 500]}

\* isUnauthorizedError of @/lib/authUtils: the HTTP 401 error
isUnauthorizedError(error) == error.status = 401

UnauthorizedToast ==
    [title |-> "Unauthorized", description |-> "You are logged out. Logging in again...",
     variant |-> "destructive"]

ErrorToast(description) ==
    [title |-> "Error", description |-> description, variant |-> "destructive"]

\* function Router(): the component rendered
Router == Switch(Routes(isLoading, isAuthenticated), location)

\* the document of the app is loaded: the browser has not left for the login
\* endpoint of the server
Loaded == location # "/api/login"

\* the Community page is rendered
CommunityShown == Loaded /\ Router = "Community"

\* the Learn page is rendered
LearnShown == Loaded /\ Router = "Learn"

\* isLoading of useQuery: the first fetch of the query, with no data yet
QueryLoading(key) == queries[key].status = "fetching" /\ queries[key].data = <<>>

\* if (isLoading || reportsLoading || eventsLoading) return the skeleton
Skeleton == isLoading \/ \E key \in QueryKeys : QueryLoading(key)

\* the Community page is rendered past its early returns: the tabs are shown
CommunityTabs == CommunityShown /\ ~Skeleton /\ isAuthenticated

\* the requests of the page rendered that are in flight, by the mutation that
\* sent them
Pending ==
    (IF reporting THEN <<[mutation |-> "reportMutation"]>> ELSE <<>>)
    \o (IF joining THEN <<[mutation |-> "joinEventMutation"]>> ELSE <<>>)
    \o (IF generating THEN <<[mutation |-> "generateQuizMutation"]>> ELSE <<>>)
    \o (IF submitting = <<>> THEN <<>>
        ELSE <<[mutation |-> "submitQuizMutation", results |-> submitting[1]]>>)

\* the requests of the mutations in flight
InFlight == Len(orphans) + Len(Pending)

\* the useState values and the mutations of a page that mounts
Mounted ==
    /\ quizTopic' = <<>>
    /\ currentQuiz' = <<>>
    /\ quizAnswers' = <<>>
    /\ quizResults' = <<>>
    /\ generating' = FALSE
    /\ submitting' = <<>>
    /\ activeTab' = "reports"
    /\ showReportForm' = FALSE
    /\ reporting' = FALSE
    /\ joining' = FALSE

\* <Switch> renders component next: when it is another than the one rendered,
\* the page rendered unmounts, its state is gone and its requests in flight go
\* on without it; the page that mounts starts from its initial state and
\* fetches its queries
Render(component) ==
    IF component = Router
    THEN UNCHANGED <<quiz, community, orphans, queries>>
    ELSE /\ orphans' = orphans \o Pending
         /\ Mounted
         /\ queries' = QueriesOnMount(component, queries)

\* the browser leaves the document: its state and its requests go with it
Unload == orphans' = <<>> /\ Mounted

\* the sequence without its element i
Remove(s, i) == SubSeq(s, 1, i - 1) \o SubSeq(s, i + 1, Len(s))

\* a request of the mutation, sent by a page no longer rendered, settles
OrphanSettles(mutation) ==
    \E i \in 1..Len(orphans) :
        orphans[i].mutation = mutation /\ orphans' = Remove(orphans, i)

\* useAuth() gives new values; Router renders again
useAuth(loading, authenticated) ==
    /\ Loaded
    /\ isLoading' = loading
    /\ isAuthenticated' = authenticated
    /\ Render(Switch(Routes(loading, authenticated), location))
    /\ UNCHANGED <<storage, toasts, redirectTimers, location>>

\* queryClient.invalidateQueries({ queryKey: [key] }): a query the page
\* rendered observes is fetched again at once; any other is left as it is, but
\* for the data of a success, which are marked invalidated
invalidateQueries(key) ==
    [queries EXCEPT ![key] =
        IF CommunityShown THEN Fetch(@)
        ELSE IF @.status = "success" THEN [@ EXCEPT !.status = "invalidated"]
        ELSE @]

\* <Tabs value={activeTab} onValueChange={setActiveTab}>
setActiveTab(value) ==
    /\ CommunityTabs
    /\ activeTab # value
    /\ activeTab' = value
    /\ UNCHANGED <<storage, auth, quiz, toasts, redirectTimers, location, queries,
                   showReportForm, reporting, joining, orphans>>

\* onClick={() => setShowReportForm(true)} of Report Issue, on the reports
\* tab, and onClick={() => setShowReportForm(false)} of Cancel, in the form
setShowReportForm(value) ==
    /\ CommunityTabs
    /\ activeTab = "reports"
    /\ value = FALSE => showReportForm
    /\ showReportForm' = value
    /\ UNCHANGED <<storage, auth, quiz, toasts, redirectTimers, location, queries,
                   activeTab, reporting, joining, orphans>>

\* onSubmit: reportMutation.mutate(data), the form shown on the reports tab
\* and its button disabled while reportMutation.isPending
onSubmit ==
    /\ CommunityTabs
    /\ activeTab = "reports"
    /\ showReportForm
    /\ ~reporting
    /\ InFlight < MaxRequests
    /\ reporting' = TRUE
    /\ UNCHANGED <<storage, auth, quiz, toasts, redirectTimers, location, queries,
                   activeTab, showReportForm, joining, orphans>>

ReportSubmittedToast ==
    [title |-> "Report Submitted", description |-> "Thank you for reporting this issue!"]

\* reportMutation.onSuccess: setShowReportForm(false) and form.reset() act on
\* the page that sent the request
reportMutation_onSuccess ==
    /\ Loaded
    /\ Len(toasts) < MaxToasts
    /\ \/ /\ reporting
          /\ reporting' = FALSE
          /\ showReportForm' = FALSE
          /\ UNCHANGED <<activeTab, joining, orphans>>
       \/ /\ OrphanSettles("reportMutation")
          /\ UNCHANGED community
    /\ queries' = invalidateQueries("/api/community-reports")
    /\ toasts' = Append(toasts, ReportSubmittedToast)
    /\ UNCHANGED <<storage, auth, quiz, redirectTimers, location>>

\* reportMutation.onError
reportMutation_onError(error) ==
    /\ Loaded
    /\ Len(toasts) < MaxToasts
    /\ \/ /\ reporting
          /\ reporting' = FALSE
          /\ UNCHANGED <<activeTab, showReportForm, joining, orphans>>
       \/ /\ OrphanSettles("reportMutation")
          /\ UNCHANGED community
    /\ IF isUnauthorizedError(error)
       THEN /\ toasts' = Append(toasts, UnauthorizedToast)
            /\ redirectTimers' = redirectTimers + 1
       ELSE /\ toasts' = Append(toasts, ErrorToast("Failed to submit report. Please try again."))
            /\ UNCHANGED redirectTimers
    /\ UNCHANGED <<storage, auth, quiz, location, queries>>

\* the events the events tab shows a card of: events.map(...)
EventsShown ==
    LET data == queries["/api/cleanup-events"].data
    IN  IF data = <<>> THEN {} ELSE {data[1][i] : i \in 1..Len(data[1])}

\* onClick={() => joinEventMutation.mutate(event.id)} of the card of event on
\* the events tab, the button disabled while joinEventMutation.isPending and
\* for a full event
joinEventMutation_mutate(event) ==
    /\ CommunityTabs
    /\ activeTab = "events"
    /\ event \in EventsShown
    /\ ~(joining \/ event.currentParticipants >= event.maxParticipants)
    /\ InFlight < MaxRequests
    /\ joining' = TRUE
    /\ UNCHANGED <<storage, auth, quiz, toasts, redirectTimers, location, queries,
                   activeTab, showReportForm, reporting, orphans>>

JoinedToast == [title |-> "Success", description |-> "You've joined the cleanup event!"]

\* joinEventMutation.onSuccess
joinEventMutation_onSuccess ==
    /\ Loaded
    /\ Len(toasts) < MaxToasts
    /\ \/ /\ joining
          /\ joining' = FALSE
          /\ UNCHANGED <<activeTab, showReportForm, reporting, orphans>>
       \/ /\ OrphanSettles("joinEventMutation")
          /\ UNCHANGED community
    /\ queries' = invalidateQueries("/api/cleanup-events")
    /\ toasts' = Append(toasts, JoinedToast)
    /\ UNCHANGED <<storage, auth, quiz, redirectTimers, location>>

\* mutant of joinEventMutation_onError: the unauthorized branch does not return
joinEventMutation_onError_noReturn(error) ==
    /\ Loaded
    /\ Len(toasts) < MaxToasts
    /\ \/ /\ joining
          /\ joining' = FALSE
          /\ UNCHANGED <<activeTab, showReportForm, reporting, orphans>>
       \/ /\ OrphanSettles("joinEventMutation")
          /\ UNCHANGED community
    /\ IF isUnauthorizedError(error)
       THEN /\ toasts' = Append(Append(toasts, UnauthorizedToast),
                                ErrorToast("Failed to join event. Please try again."))
            /\ redirectTimers' = redirectTimers + 1
       ELSE /\ toasts' = Append(toasts, ErrorToast("Failed to join event. Please try again."))
            /\ UNCHANGED redirectTimers
    /\ UNCHANGED <<storage, auth, quiz, location, queries>>

\* joinEventMutation.onError
joinEventMutation_onError(error) ==
    /\ Loaded
    /\ Len(toasts) < MaxToasts
    /\ \/ /\ joining
          /\ joining' = FALSE
          /\ UNCHANGED <<activeTab, showReportForm, reporting, orphans>>
       \/ /\ OrphanSettles("joinEventMutation")
          /\ UNCHANGED community
    /\ IF isUnauthorizedError(error)
       THEN /\ toasts' = Append(toasts, UnauthorizedToast)
            /\ redirectTimers' = redirectTimers + 1
       ELSE /\ toasts' = Append(toasts, ErrorToast("Failed to join event. Please try again."))
            /\ UNCHANGED redirectTimers
    /\ UNCHANGED <<storage, auth, quiz, location, queries>>

\* generateQuizMutation.onError: the request sent by handleGenerateQuiz failed
generateQuizMutation_onError(error) ==
    /\ Loaded
    /\ Len(toasts) < MaxToasts
    /\ \/ /\ generating
          /\ generating' = FALSE
          /\ UNCHANGED orphans
       \/ /\ OrphanSettles("generateQuizMutation")
          /\ UNCHANGED generating
    /\ IF isUnauthorizedError(error)
       THEN /\ toasts' = Append(toasts, UnauthorizedToast)
            /\ redirectTimers' = redirectTimers + 1
       ELSE /\ toasts' = Append(toasts, ErrorToast("Failed to generate quiz. Please try again."))
            /\ UNCHANGED redirectTimers
    /\ UNCHANGED <<storage, auth, community, quizTopic, currentQuiz, quizAnswers, quizResults,
                   submitting, location, queries>>

\* ------------------------------------------------------------------ quiz
\* A string is the sequence of its characters. A quiz is the array of its
\* questions, of which the answer logic reads correctAnswer; the question at
\* JavaScript index i is quiz[i + 1]. currentQuiz and quizResults are <<>>
\* (null) or <<value>>; quizAnswers is the object as a function from the
\* indexes answered.
MaxQuestions == 3

OptionIndexes == {0, 1}

Topics == {<<" ">>, <<" ", "r", " ">>}

\* the responses of POST /api/quiz/generate: quizzes of up to MaxQuestions
\* questions, the first option the correct one
QuizData == {[i \in 1..n |-> [correctAnswer |-> 0]] : n \in 0..MaxQuestions}

\* the card of the quiz tab that is rendered
QuizView ==
    IF currentQuiz = <<>> /\ quizResults = <<>> THEN "generator"
    ELSE IF currentQuiz # <<>> /\ quizResults = <<>> THEN "quiz"
    ELSE IF quizResults # <<>> THEN "results"
    ELSE "none"

\* <Input onChange={(e) => setQuizTopic(e.target.value)} />
setQuizTopic(value) ==
    /\ LearnShown
    /\ QuizView = "generator"
    /\ quizTopic' = value
    /\ UNCHANGED <<storage, auth, community, orphans, toasts, redirectTimers, location,
                   queries, currentQuiz, quizAnswers, quizResults, generating, submitting>>

\* handleGenerateQuiz, the button disabled while generateQuizMutation.isPending
handleGenerateQuiz ==
    /\ LearnShown
    /\ QuizView = "generator"
    /\ ~generating
    /\ IF trim(quizTopic) = <<>>
       THEN /\ Len(toasts) < MaxToasts
            /\ toasts' = Append(toasts, ErrorToast("Please enter a topic for the quiz."))
            /\ UNCHANGED generating
       ELSE /\ InFlight < MaxRequests
            /\ generating' = TRUE
            /\ UNCHANGED toasts
    /\ UNCHANGED <<storage, auth, community, orphans, redirectTimers, location, queries,
                   quizTopic, currentQuiz, quizAnswers, quizResults, submitting>>

QuizGeneratedToast ==
    [title |-> "Quiz Generated!", description |-> "Your personalized quiz is ready. Good luck!"]

\* generateQuizMutation.onSuccess: the setters act on the page that sent the
\* request, and on nothing once that page has unmounted
generateQuizMutation_onSuccess(data) ==
    /\ Loaded
    /\ Len(toasts) < MaxToasts
    /\ \/ /\ generating
          /\ generating' = FALSE
          /\ currentQuiz' = <<data>>
          /\ quizAnswers' = <<>>
          /\ quizResults' = <<>>
          /\ UNCHANGED orphans
       \/ /\ OrphanSettles("generateQuizMutation")
          /\ UNCHANGED <<generating, currentQuiz, quizAnswers, quizResults>>
    /\ toasts' = Append(toasts, QuizGeneratedToast)
    /\ UNCHANGED <<storage, auth, community, redirectTimers, location, queries, quizTopic,
                   submitting>>

\* onClick={() => setQuizAnswers(prev => ({ ...prev, [index]: optionIndex }))}
SelectAnswer(index, optionIndex) ==
    /\ LearnShown
    /\ QuizView = "quiz"
    /\ index \in 0..(Len(currentQuiz[1]) - 1)
    /\ quizAnswers' = (index :> optionIndex) @@ quizAnswers
    /\ UNCHANGED <<storage, auth, community, orphans, toasts, redirectTimers, location,
                   queries, quizTopic, currentQuiz, quizResults, generating, submitting>>

\* submitQuizMutation.mutationFn: score is <<>> for NaN
QuizResultsOf(questions, answers) ==
    LET details == [i \in 1..Len(questions) |->
                      [selectedAnswer |-> IF i - 1 \in DOMAIN answers
                                          THEN <<answers[i - 1]>> ELSE <<>>,
                       correctAnswer |-> questions[i].correctAnswer,
                       isCorrect |-> /\ i - 1 \in DOMAIN answers
                                     /\ answers[i - 1] = questions[i].correctAnswer]]
        totalQuestions == Len(questions)
        correct == Len(SelectSeq(details, LAMBDA d : d.isCorrect))
    IN  [score |-> IF totalQuestions = 0 THEN <<>>
                   ELSE <<MathRound(Multiply(Divide(correct, totalQuestions), 100))>>,
         totalQuestions |-> totalQuestions,
         correct |-> correct,
         wrong |-> totalQuestions - correct,
         details |-> details]

\* mutant of handleSubmitQuiz: the answers are submitted without the check
handleSubmitQuiz_unchecked ==
    /\ LearnShown
    /\ QuizView = "quiz"
    /\ submitting = <<>>
    /\ InFlight < MaxRequests
    /\ submitting' = <<QuizResultsOf(currentQuiz[1], quizAnswers)>>
    /\ UNCHANGED <<storage, auth, community, orphans, toasts, redirectTimers, location,
                   queries, quizTopic, currentQuiz, quizAnswers, quizResults, generating>>

\* handleSubmitQuiz, the button disabled while submitQuizMutation.isPending;
\* submitQuizMutation.mutate(quizAnswers) runs mutationFn
handleSubmitQuiz ==
    /\ LearnShown
    /\ QuizView = "quiz"
    /\ submitting = <<>>
    /\ IF Cardinality(DOMAIN quizAnswers) < Len(currentQuiz[1])
       THEN /\ Len(toasts) < MaxToasts
            /\ toasts' = Append(toasts,
                                ErrorToast("Please answer all questions before submitting."))
            /\ UNCHANGED submitting
       ELSE /\ InFlight < MaxRequests
            /\ submitting' = <<QuizResultsOf(currentQuiz[1], quizAnswers)>>
            /\ UNCHANGED toasts
    /\ UNCHANGED <<storage, auth, community, orphans, redirectTimers, location, queries,
                   quizTopic, currentQuiz, quizAnswers, quizResults, generating>>

\* description: `You scored ${score}% - ${correct}/${totalQuestions} correct!`
QuizCompletedToast(results) ==
    [title |-> "Quiz Completed!", score |-> results.score, correct |-> results.correct,
     totalQuestions |-> results.totalQuestions]

\* submitQuizMutation.onSuccess: setQuizResults acts on the page that sent the
\* request, and on nothing once that page has unmounted
submitQuizMutation_onSuccess ==
    /\ Loaded
    /\ Len(toasts) < MaxToasts
    /\ \/ /\ submitting # <<>>
          /\ quizResults' = submitting
          /\ submitting' = <<>>
          /\ toasts' = Append(toasts, QuizCompletedToast(submitting[1]))
          /\ UNCHANGED orphans
       \/ /\ \E i \in 1..Len(orphans) :
                /\ orphans[i].mutation = "submitQuizMutation"
                /\ orphans' = Remove(orphans, i)
                /\ toasts' = Append(toasts, QuizCompletedToast(orphans[i].results))
          /\ UNCHANGED <<quizResults, submitting>>
    /\ UNCHANGED <<storage, auth, community, redirectTimers, location, queries, quizTopic,
                   currentQuiz, quizAnswers, generating>>

\* Start Over onClick
StartOver ==
    /\ LearnShown
    /\ QuizView = "quiz"
    /\ currentQuiz' = <<>>
    /\ quizAnswers' = <<>>
    /\ quizTopic' = <<>>
    /\ UNCHANGED <<storage, auth, community, orphans, toasts, redirectTimers, location,
                   queries, quizResults, generating, submitting>>

\* Take Another Quiz onClick
TakeAnotherQuiz ==
    /\ LearnShown
    /\ QuizView = "results"
    /\ currentQuiz' = <<>>
    /\ quizAnswers' = <<>>
    /\ quizResults' = <<>>
    /\ quizTopic' = <<>>
    /\ UNCHANGED <<storage, auth, community, orphans, toasts, redirectTimers, location,
                   queries, generating, submitting>>

\* setTimeout(() => { window.location.href = "/api/login"; }, 500): the callback
\* runs; the document is left, and its other timers go with it
RedirectTimer ==
    /\ redirectTimers > 0
    /\ location' = "/api/login"
    /\ redirectTimers' = 0
    /\ Unload
    /\ UNCHANGED <<storage, auth, toasts, queries>>

\* the user follows a link to another path of the app: <Switch> renders the
\* page of the path; timers and toasts stay
Navigate(path) ==
    /\ Loaded
    /\ path # "/api/login"
    /\ location # path
    /\ location' = path
    /\ Render(Switch(Routes(isLoading, isAuthenticated), path))
    /\ UNCHANGED <<storage, auth, toasts, redirectTimers>>

\* useQuery({ queryKey: ["/api/community-reports"], retry: false, ... })
ReportsQuery == [queryKey |-> "/api/community-reports", retry |-> FALSE]

\* useQuery({ queryKey: ["/api/cleanup-events"], retry: false, ... })
EventsQuery == [queryKey |-> "/api/cleanup-events", retry |-> FALSE]

QueryOptions(key) == IF key = ReportsQuery.queryKey THEN ReportsQuery ELSE EventsQuery

\* how often useQuery issues the request again after a failure: never with
\* retry: false, the given number of times with a number, 3 times by default
Retries(options) ==
    IF "retry" \in DOMAIN options
    THEN (IF options.retry = FALSE THEN 0 ELSE options.retry)
    ELSE 3

\* the request of the query succeeds with data
QuerySuccess(key, data) ==
    /\ queries[key].status = "fetching"
    /\ queries' = [queries EXCEPT ![key].status = "success", ![key].data = <<data>>]
    /\ UNCHANGED <<storage, auth, quiz, community, orphans, toasts, redirectTimers, location>>

\* the request of the query fails: it is issued again while retries are left
QueryFailure(key) ==
    /\ queries[key].status = "fetching"
    /\ queries' = [queries EXCEPT ![key] =
                      IF @.failureCount < Retries(QueryOptions(key))
                      THEN [@ EXCEPT !.requests = @ + 1, !.failureCount = @ + 1]
                      ELSE [@ EXCEPT !.status = "error", !.failureCount = @ + 1]]
    /\ UNCHANGED <<storage, auth, quiz, community, orphans, toasts, redirectTimers, location>>

\* ------------------------------------------------------------------- specs
Step(p) ==
    \/ createWasteEntry_update(p)
    \/ redeemReward_selectUser(p)
    \/ redeemReward_deduct(p)
    \/ redeemReward_insert(p)

Start(p) ==
    \/ \E entry \in PointsEntries : createWasteEntry_insert(p, entry)
    \/ \E u \in AllUserIds, r \in AllRewardIds : redeemReward_selectReward(p, u, r)

\* requests interleave between their database statements
Next == \E p \in Procs : Start(p) \/ Step(p)

Spec == Init /\ [][Next]_vars

\* storage calls run one at a time: a call starts only when no other is in progress
SeqNext == \E p \in Procs : ((\A q \in Procs : Idle(q)) /\ Start(p)) \/ Step(p)

SeqSpec == Init /\ [][SeqNext]_vars

\* cleanup events: creating events and joining them, interleaved; the events
\* joined are events of the table (event_participants.eventId refers to one)
EventInputs ==
    {[maxParticipants |-> m, currentParticipants |-> c] : m \in 1..MaxCap, c \in 0..MaxCap}

EventInit ==
    InitWith({0}, {e \in EventInputs : e.currentParticipants <= e.maxParticipants})

EventNext ==
    \E p \in Procs :
        \/ \E e \in {e \in EventInputs : e.currentParticipants <= e.maxParticipants} :
              createCleanupEvent(p, e)
        \/ \E e \in DOMAIN cleanupEvents, u \in UserIds : joinCleanupEvent_insert(p, e, u)
        \/ joinCleanupEvent_update(p)

EventSpec == EventInit /\ [][EventNext]_vars

\* pickup schedules and community reports
ReportInit == InitWith({0}, {[maxParticipants |-> 1, currentParticipants |-> 0]})

ReportNext ==
    \E p \in Procs :
        \/ \E u \in UserIds : createPickupSchedule(p, [userId |-> u])
        \/ \E id \in 1..(Len(pickupSchedules) + 1), s \in PickupStatuses, now \in Times :
              updatePickupScheduleStatus(p, id, s, now)
        \/ \E r \in ReportInputs : createCommunityReport(p, r)
        \/ \E id \in 1..(Len(communityReports) + 1), s \in ReportStatuses, now \in Times :
              updateCommunityReportStatus(p, id, s, now)

ReportSpec == ReportInit /\ [][ReportNext]_vars

\* challenge progress
ChallengeIds == {1, 2}
Progresses == {1, 2}

ChallengeInit == InitWith({0}, {[maxParticipants |-> 1, currentParticipants |-> 0]})

ChallengeNext ==
    \E p \in Procs, u \in UserIds, c \in ChallengeIds, n \in Progresses :
        updateChallengeProgress(p, u, c, n)

ChallengeSpec == ChallengeInit /\ [][ChallengeNext]_vars

\* every method that writes, over one user, one challenge and one time
StorageInit == InitWith({2}, {[maxParticipants |-> 1, currentParticipants |-> 0]})

StorageNext ==
    \E p \in Procs :
        \/ \E d \in {d \in UserInputs : d.email = "a@eco.bin"} : upsertUser(p, d, 1)
        \/ \E entry \in {e \in PointsEntries : e.userId = "u1"} :
              createWasteEntry_insert(p, entry)
        \/ createWasteEntry_update(p)
        \/ \E r \in AllRewardIds : redeemReward_selectReward(p, "u1", r)
        \/ redeemReward_selectUser(p)
        \/ redeemReward_deduct(p)
        \/ redeemReward_insert(p)
        \/ createPickupSchedule(p, [userId |-> "u1"])
        \/ \E id \in 1..(Len(pickupSchedules) + 1), s \in PickupStatuses :
              updatePickupScheduleStatus(p, id, s, 1)
        \/ \E r \in ReportInputs : createCommunityReport(p, r)
        \/ \E id \in 1..(Len(communityReports) + 1), s \in ReportStatuses :
              updateCommunityReportStatus(p, id, s, 1)
        \/ createCleanupEvent(p, [maxParticipants |-> 1, currentParticipants |-> 0])
        \/ \E e \in DOMAIN cleanupEvents : joinCleanupEvent_insert(p, e, "u1")
        \/ joinCleanupEvent_update(p)
        \/ \E n \in Progresses : updateChallengeProgress(p, "u1", 1, n)

StorageSpec == StorageInit /\ [][StorageNext]_vars

\* analytics: waste entries of several types and quantities are logged while
\* analytics are read
AnalyticsInit == InitWith({1}, {[maxParticipants |-> 1, currentParticipants |-> 0]})

AnalyticsNext ==
    \E p \in Procs :
        \/ \E entry \in AnalyticsEntries : createWasteEntry_insert(p, entry)
        \/ createWasteEntry_update(p)
        \/ \E u \in AllUserIds : getUserAnalytics_selectUser(p, u)
        \/ getUserAnalytics_selectEntries(p)

AnalyticsSpec == AnalyticsInit /\ [][AnalyticsNext]_vars

\* analytics read between storage calls, over users some of whom have no balance
AnalyticsSeqInit ==
    InitFrom(UserRows({1}) \cup NullPointsRows, SeededRewards,
             {[maxParticipants |-> 1, currentParticipants |-> 0]})

AnalyticsSeqNext ==
    \E p \in Procs :
        \/ /\ \A q \in Procs : Idle(q)
           /\ \/ \E entry \in PointsEntries : createWasteEntry_insert(p, entry)
              \/ \E u \in AllUserIds : getUserAnalytics_selectUser(p, u)
        \/ createWasteEntry_update(p)
        \/ getUserAnalytics_selectEntries(p)

AnalyticsSeqSpec == AnalyticsSeqInit /\ [][AnalyticsSeqNext]_vars

\* redemptions, interleaved, over users some of whom have no balance and rewards
\* one of which is free
FreeReward == 4 :> [id |-> 4, ecoPointsCost |-> 0, isActive |-> TRUE, validUntil |-> 90]

RedeemInit ==
    InitFrom(UserRows({0, 2}) \cup NullPointsRows, FreeReward @@ SeededRewards,
             {[maxParticipants |-> 1, currentParticipants |-> 0]})

RedeemNext ==
    \E p \in Procs :
        \/ \E u \in AllUserIds, r \in AllRewardIds \cup DOMAIN rewards :
              redeemReward_selectReward(p, u, r)
        \/ redeemReward_selectUser(p)
        \/ redeemReward_deduct(p)
        \/ redeemReward_insert(p)

RedeemSpec == RedeemInit /\ [][RedeemNext]_vars

\* the mutation error handlers of the pages, the queries of the Community
\* page answered, its tabs and its report form used
ClientInit == InitWith({0}, {[maxParticipants |-> 1, currentParticipants |-> 0]})

ClientNext ==
    \/ \E key \in QueryKeys : \E data \in Responses(key) : QuerySuccess(key, data)
    \/ \E value \in {"reports", "events"} : setActiveTab(value)
    \/ \E value \in BOOLEAN : setShowReportForm(value)
    \/ onSubmit
    \/ \E event \in EventsShown : joinEventMutation_mutate(event)
    \/ \E error \in ClientErrors :
          \/ reportMutation_onError(error)
          \/ joinEventMutation_onError(error)
          \/ generateQuizMutation_onError(error)
    \/ \E value \in Topics : setQuizTopic(value)
    \/ handleGenerateQuiz
    \/ RedirectTimer
    \/ \E path \in {"/community", "/learn"} : Navigate(path)

ClientSpec == ClientInit /\ [][ClientNext]_vars

\* the router from the first render on: useAuth() still loading, then any
\* values; any path; the handlers of the pages rendered
RouterInit ==
    /\ InitStorage(UserRows({0}), SeededRewards, {[maxParticipants |-> 1, currentParticipants |-> 0]})
    /\ \E path \in Paths \ {"/api/login"} : InitClientAs(path, TRUE, FALSE)

RouterNext ==
    \/ \E loading, authenticated \in BOOLEAN : useAuth(loading, authenticated)
    \/ \E path \in Paths : Navigate(path)
    \/ \E error \in ClientErrors : generateQuizMutation_onError(error)
    \/ \E value \in Topics : setQuizTopic(value)
    \/ handleGenerateQuiz
    \/ RedirectTimer

RouterSpec == RouterInit /\ [][RouterNext]_vars

\* the quiz tab of the Learn page
QuizInit ==
    /\ InitStorage(UserRows({0}), SeededRewards, {[maxParticipants |-> 1, currentParticipants |-> 0]})
    /\ InitClient("/learn")

QuizNext ==
    \/ \E value \in Topics : setQuizTopic(value)
    \/ handleGenerateQuiz
    \/ \E data \in QuizData : generateQuizMutation_onSuccess(data)
    \/ \E error \in ClientErrors : generateQuizMutation_onError(error)
    \/ \E index \in 0..(MaxQuestions - 1), optionIndex \in OptionIndexes :
          SelectAnswer(index, optionIndex)
    \/ handleSubmitQuiz
    \/ submitQuizMutation_onSuccess
    \/ StartOver
    \/ TakeAnotherQuiz
    \/ \E path \in {"/about", "/learn"} : Navigate(path)

QuizSpec == QuizInit /\ [][QuizNext]_vars

\* the submission of a generated quiz of up to LongQuiz questions, each
\* answered: the first correct questions rightly, the others wrongly
LongQuiz == 40

ScoreInit ==
    /\ InitStorage(UserRows({0}), SeededRewards, {[maxParticipants |-> 1, currentParticipants |-> 0]})
    /\ toasts = <<QuizGeneratedToast>>
    /\ redirectTimers = 0
    /\ location = "/learn"
    /\ queries = [k \in QueryKeys |-> IdleQuery]
    /\ isLoading = FALSE
    /\ isAuthenticated = TRUE
    /\ quizTopic = <<"r">>
    /\ \E n \in 1..LongQuiz, correct \in 0..LongQuiz :
          /\ correct <= n
          /\ currentQuiz = <<[i \in 1..n |-> [correctAnswer |-> 0]]>>
          /\ quizAnswers = [index \in 0..(n - 1) |-> IF index < correct THEN 0 ELSE 1]
    /\ quizResults = <<>>
    /\ generating = FALSE
    /\ submitting = <<>>
    /\ activeTab = "reports"
    /\ showReportForm = FALSE
    /\ reporting = FALSE
    /\ joining = FALSE
    /\ orphans = <<>>

ScoreNext ==
    \/ handleSubmitQuiz
    \/ submitQuizMutation_onSuccess
    \/ TakeAnotherQuiz

ScoreSpec == ScoreInit /\ [][ScoreNext]_vars

\* the storage calls of several statements, one request at a time: entries,
\* redemptions and joins of one user, the analytics of an id with no users
\* row; and the
\* queries of the Community page, answered or failing, with the mutations
\* that invalidate them, the page left for /learn and come back to
RetryInit == InitWith({2}, {[maxParticipants |-> 1, currentParticipants |-> 0]})

\* the response of the query in these behaviours: no report, one event with
\* a place left
RetryResponse(key) ==
    IF key = EventsQuery.queryKey
    THEN <<[id |-> 1, currentParticipants |-> 0, maxParticipants |-> 1]>>
    ELSE <<>>

RetryNext ==
    \/ \E p \in {"p1"} :
          \/ \E entry \in {e \in PointsEntries : e.userId = "u1" /\ e.ecoPointsEarned = 1} :
                createWasteEntry_insert(p, entry)
          \/ createWasteEntry_update(p)
          \/ \E r \in AllRewardIds : redeemReward_selectReward(p, "u1", r)
          \/ redeemReward_selectUser(p)
          \/ redeemReward_deduct(p)
          \/ redeemReward_insert(p)
          \/ \E e \in DOMAIN cleanupEvents : joinCleanupEvent_insert(p, e, "u1")
          \/ joinCleanupEvent_update(p)
          \/ getUserAnalytics_selectUser(p, "u3")
          \/ getUserAnalytics_selectEntries(p)
    \/ \E key \in QueryKeys : QuerySuccess(key, RetryResponse(key)) \/ QueryFailure(key)
    \/ \E value \in {"reports", "events"} : setActiveTab(value)
    \/ \E value \in BOOLEAN : setShowReportForm(value)
    \/ onSubmit
    \/ reportMutation_onSuccess
    \/ \E event \in EventsShown : joinEventMutation_mutate(event)
    \/ joinEventMutation_onSuccess
    \/ \E path \in {"/community", "/learn"} : Navigate(path)

RetrySpec == RetryInit /\ [][RetryNext]_vars

\* redemptions and listings of the rewards, interleaved; one reward is inactive
RewardInit ==
    InitFrom(UserRows({0, 3}), FreeReward @@ SeededRewards,
             {[maxParticipants |-> 1, currentParticipants |-> 0]})

RewardNext ==
    \E p \in Procs :
        \/ \E u \in {"u1", "u3"}, r \in AllRewardIds \cup DOMAIN rewards :
              redeemReward_selectReward(p, u, r)
        \/ redeemReward_selectUser(p)
        \/ redeemReward_deduct(p)
        \/ redeemReward_insert(p)
        \/ getAvailableRewards(p)

RewardSpec == RewardInit /\ [][RewardNext]_vars

\* waste entries with and without ecoPointsEarned, and redemptions, interleaved
FrameEntries ==
    PointsEntries \cup
    {[userId |-> u, wasteType |-> "plastic", quantity |-> <<"2">>] : u \in UserIds}

FrameNext ==
    \E p \in Procs :
        \/ \E entry \in FrameEntries : createWasteEntry_insert(p, entry)
        \/ createWasteEntry_update(p)
        \/ \E u \in UserIds, r \in RewardIds : redeemReward_selectReward(p, u, r)
        \/ redeemReward_selectUser(p)
        \/ redeemReward_deduct(p)
        \/ redeemReward_insert(p)

FrameSpec == Init /\ [][FrameNext]_vars

\* every read method by one request, between and during the writes of another
ReadEvents ==
    {[maxParticipants |-> 1, currentParticipants |-> 0, status |-> s, eventDate |-> d] :
        s \in {"upcoming", "completed"}, d \in Times}

ReadInit == InitWith({2}, {e \in ReadEvents : e.eventDate = 2})

ReadNext ==
    \/ \E p \in {CHOOSE p \in Procs : TRUE} :
          \/ \E e \in {e \in PointsEntries : e.userId = "u1" /\ e.ecoPointsEarned = 1} :
                createWasteEntry_insert(p, e)
          \/ createWasteEntry_update(p)
          \/ \E d \in Times : createPickupSchedule(p, [userId |-> "u1", scheduledDate |-> d])
          \/ \E r \in {r \in ReportInputs : r.priority = "high"} : createCommunityReport(p, r)
          \/ \E e \in {e \in ReadEvents : e.eventDate = 1} : createCleanupEvent(p, e)
          \/ updateChallengeProgress(p, "u1", 1, 1)
          \/ redeemReward_selectReward(p, "u1", 1)
          \/ redeemReward_selectUser(p)
          \/ redeemReward_deduct(p)
          \/ redeemReward_insert(p)
    \/ \E p \in Procs \ {CHOOSE p \in Procs : TRUE} :
          \/ \E u \in {"u1", "u3"} : getUser(p, u)
          \/ getUserWasteEntries(p, "u1")
          \/ \E d \in Times : getWasteEntriesByDateRange(p, "u1", d, 2)
          \/ getUserPickupSchedules(p, "u1")
          \/ \E n \in {1, 50} : getCommunityReports(p, n)
          \/ \E now \in Times : getUpcomingCleanupEvents(p, now)
          \/ getActiveChallenges(p)
          \/ getUserChallengeProgress(p, "u1")
          \/ getAvailableRewards(p)
          \/ getUserRewards(p, "u1")
          \/ getUserAnalytics_selectUser(p, "u1")
          \/ getUserAnalytics_selectEntries(p)

ReadSpec == ReadInit /\ [][ReadNext]_vars

\* ------------------------------------------------------------------ claims
RewardCost(p) == rewards[call[p].rewardId].ecoPointsCost

\* C1: run alone, a completed createWasteEntry call leaves the owner's ecoPoints
\* at the balance the call started from plus entry.ecoPointsEarned, and the
\* waste_entries table at what it was plus exactly the one new entry.
C1_CreateWasteEntryCredits ==
    [][\A p \in Procs : createWasteEntry_update(p) =>
          LET entry == call[p].entry IN
          /\ entry.ecoPointsEarned >= 0
          /\ users'[entry.userId].ecoPoints =
                pre[p].users[entry.userId].ecoPoints + entry.ecoPointsEarned
          /\ wasteEntries' =
                Append(pre[p].wasteEntries, [id |-> Len(pre[p].wasteEntries) + 1] @@ entry)
          /\ result'[p].status = "ok"]_vars

C1_Witness ==
    \E p \in Procs :
        /\ Idle(p) /\ call[p].op = "createWasteEntry" /\ result[p].status = "ok"
        /\ call[p].entry.ecoPointsEarned = MaxPoints
        /\ calls = 1 /\ Len(wasteEntries) = 1
        /\ users[call[p].entry.userId].ecoPoints = MaxInitPoints + MaxPoints

\* C2: a redeemReward call for an existing reward that reads a user balance
\* strictly below the reward's cost throws "Insufficient EcoPoints", and neither
\* of the call's two statements changes any ecoPoints or any user_rewards row.
C2_InsufficientPointsRejected ==
    [][\A p \in Procs :
          /\ \A u \in AllUserIds, r \in AllRewardIds :
                redeemReward_selectReward(p, u, r) =>
                    users' = users /\ userRewards' = userRewards
          /\ ( /\ redeemReward_selectUser(p)
               /\ call[p].userId \in DOMAIN users
               /\ users[call[p].userId].ecoPoints < RewardCost(p) )
             => /\ result'[p] = Error("Insufficient EcoPoints")
                /\ pc'[p] = "idle"
                /\ users' = users /\ userRewards' = userRewards]_vars

C2_Witness ==
    \E p \in Procs :
        /\ Idle(p) /\ call[p].op = "redeemReward"
        /\ result[p] = Error("Insufficient EcoPoints")
        /\ call[p].userId \in DOMAIN users
        /\ local[p].user[1].ecoPoints < RewardCost(p)
        /\ users[call[p].userId].ecoPoints = local[p].user[1].ecoPoints
        /\ userRewards = <<>>

\* C3: run alone, a redeemReward call whose user has ecoPoints >= the reward's
\* cost (equality included) passes the check, and when it returns the balance
\* is the starting balance minus the cost and user_rewards holds exactly one
\* more row, for (userId, rewardId).
C3_RedeemDeductsCost ==
    [][\A p \in Procs :
          /\ ( /\ redeemReward_selectUser(p)
               /\ call[p].userId \in DOMAIN users
               /\ users[call[p].userId].ecoPoints >= RewardCost(p) )
             => pc'[p] = "redeemReward_deduct"
          /\ redeemReward_insert(p) =>
                LET n == Len(pre[p].userRewards) IN
                /\ pre[p].users[call[p].userId].ecoPoints >= RewardCost(p)
                /\ users'[call[p].userId].ecoPoints =
                      pre[p].users[call[p].userId].ecoPoints - RewardCost(p)
                /\ Len(userRewards') = n + 1
                /\ SubSeq(userRewards', 1, n) = pre[p].userRewards
                /\ userRewards'[n + 1].userId = call[p].userId
                /\ userRewards'[n + 1].rewardId = call[p].rewardId
                /\ result'[p] = Ok(userRewards'[n + 1])]_vars

C3_Witness ==
    \E p \in Procs :
        /\ Idle(p) /\ call[p].op = "redeemReward" /\ result[p].status = "ok"
        /\ local[p].user[1].ecoPoints = RewardCost(p)
        /\ users[call[p].userId].ecoPoints = 0
        /\ Len(userRewards) = 1

\* C4: with storage calls run one at a time, from non-negative balances and
\* costs, no user's ecoPoints is ever negative.
C4_NonNegativeSequential ==
    \A u \in DOMAIN users : users[u].ecoPoints >= 0

C4_Witness ==
    \E u \in DOMAIN users :
        /\ users[u].ecoPoints = 0
        /\ \E i \in 1..Len(wasteEntries) :
              wasteEntries[i].userId = u /\ wasteEntries[i].ecoPointsEarned > 0
        /\ \E i \in 1..Len(userRewards) : userRewards[i].userId = u
        /\ \A p \in Procs : Idle(p)

\* C5: the deduction of a redeemReward call rests on the balance the call read
\* before its check (which was at least the cost) and subtracts the cost from
\* whatever the balance is when it runs, without checking again; two interleaved
\* calls that read the same balance both deduct, and the balance goes below 0.
C5_DeductAfterStaleCheck ==
    [][\A p \in Procs : redeemReward_deduct(p) =>
          /\ local[p].user[1].ecoPoints >= RewardCost(p)
          /\ users'[call[p].userId].ecoPoints =
                users[call[p].userId].ecoPoints - RewardCost(p)]_vars

C5_Witness ==
    \E p, q \in Procs :
        /\ p # q
        /\ call[p].op = "redeemReward" /\ call[q].op = "redeemReward"
        /\ call[p].userId = call[q].userId
        /\ pc[p] = "redeemReward_insert" /\ pc[q] = "redeemReward_insert"
        /\ local[p].user = local[q].user
        /\ local[p].user[1].ecoPoints >= 0
        /\ users[call[p].userId].ecoPoints < 0

ParticipantCount(rows, eventId, userId) ==
    Cardinality({i \in 1..Len(rows) :
                    rows[i].eventId = eventId /\ rows[i].userId = userId})

\* C6: however joinCleanupEvent calls interleave, event_participants never holds
\* two rows with the same (eventId, userId), and right after the insert of a
\* join it holds exactly one row for the pair joined.
C6_OneParticipantRow ==
    [][\A e \in DOMAIN cleanupEvents', u \in UserIds :
          /\ ParticipantCount(eventParticipants', e, u) <= 1
          /\ \A p \in Procs : joinCleanupEvent_insert(p, e, u) =>
                ParticipantCount(eventParticipants', e, u) = 1]_vars

C6_Witness ==
    \E p, q \in Procs :
        /\ p # q /\ Idle(p) /\ Idle(q)
        /\ call[p].op = "joinCleanupEvent" /\ call[q] = call[p]
        /\ result[p].status = "ok" /\ result[q].status = "ok"
        /\ ParticipantCount(eventParticipants, call[p].eventId, call[p].userId) = 1

\* the sum of the progress arguments of the calls logged for (userId, challengeId)
RECURSIVE LoggedProgress(_, _, _)
LoggedProgress(log, userId, challengeId) ==
    IF log = <<>> THEN 0
    ELSE (IF log[1][1] = userId /\ log[1][2] = challengeId THEN log[1][3] ELSE 0)
         + LoggedProgress(Tail(log), userId, challengeId)

ProgressRows(userId, challengeId) ==
    {i \in 1..Len(userChallengeProgress) :
        /\ userChallengeProgress[i].userId = userId
        /\ userChallengeProgress[i].challengeId = challengeId}

\* C7: after any sequence of updateChallengeProgress calls there is at most one
\* row per (userId, challengeId), there is one exactly when a call was made for
\* the key, and its currentProgress is the sum of the progress arguments of all
\* the calls made for the key.
C7_ProgressIsSumOfCalls ==
    \A u \in UserIds, c \in ChallengeIds :
        /\ Cardinality(ProgressRows(u, c)) <= 1
        /\ (ProgressRows(u, c) = {}) <=>
              (\A k \in 1..Len(progressLog) : <<progressLog[k][1], progressLog[k][2]>> # <<u, c>>)
        /\ \A i \in ProgressRows(u, c) :
              userChallengeProgress[i].currentProgress = LoggedProgress(progressLog, u, c)

C7_Witness ==
    \E u \in UserIds, c \in ChallengeIds :
        /\ Len(progressLog) = 2
        /\ progressLog[1] = <<u, c, 1>> /\ progressLog[2] = <<u, c, 2>>
        /\ \E i \in ProgressRows(u, c) : userChallengeProgress[i].currentProgress = 3

\* the quantities of the waste entries with indices in S, added up in the
\* order of the entries
RECURSIVE SumQuantities(_)
SumQuantities(S) ==
    IF S = {} THEN Zero
    ELSE LET i == CHOOSE i \in S : \A j \in S : j <= i IN
         Add(SumQuantities(S \ {i}), parseFloat(wasteEntries[i].quantity))

EntriesOf(userId) == {i \in 1..Len(wasteEntries) : wasteEntries[i].userId = userId}

\* C8: the wasteByType mapping getUserAnalytics(userId) returns has as keys
\* exactly the waste types of that user's entries and as value of each type the
\* sum of the quantities of that user's entries of the type; other users'
\* entries do not count.
C8_WasteByTypeSums ==
    [][\A p \in Procs : getUserAnalytics_selectEntries(p) =>
          LET mine == EntriesOf(call[p].userId)
              byType == result'[p].value.wasteByType IN
          /\ DOMAIN byType = {wasteEntries[i].wasteType : i \in mine}
          /\ \A t \in DOMAIN byType :
                byType[t] = SumQuantities({i \in mine : wasteEntries[i].wasteType = t})]_vars

\* the waste types that name nothing an object inherits
OwnTypes == WasteTypes \ (ObjectPrototypeFunctions \cup {"__proto__"})

\* the mapping is the one stated when every entry of the user has such a type
WasteByTypeOfOwnTypes ==
    [][\A p \in Procs :
          (/\ getUserAnalytics_selectEntries(p)
           /\ \A i \in EntriesOf(call[p].userId) : wasteEntries[i].wasteType \in OwnTypes) =>
          LET mine == EntriesOf(call[p].userId)
              byType == result'[p].value.wasteByType IN
          /\ DOMAIN byType = {wasteEntries[i].wasteType : i \in mine}
          /\ \A t \in DOMAIN byType :
                byType[t] = SumQuantities({i \in mine : wasteEntries[i].wasteType = t})]_vars

\* plastic 2 and plastic 3 have been returned as {plastic: 5}
PlasticFive ==
    \E p \in Procs :
        /\ Idle(p) /\ call[p].op = "getUserAnalytics" /\ result[p].status = "ok"
        /\ Len(wasteEntries) = 2
        /\ wasteEntries[1].quantity = <<"2">> /\ wasteEntries[2].quantity = <<"3">>
        /\ \A i \in 1..2 : /\ wasteEntries[i].userId = call[p].userId
                           /\ wasteEntries[i].wasteType = "plastic"
        /\ result[p].value.wasteByType
              = ("plastic" :> Finite(FALSE, [bits |-> Pad(<<1, 0, 1>>, DoubleBits), exponent |-> 2]))

\* C9: redeemReward with a rewardId that matches no rewards row throws "Reward
\* not found" at its first statement: the call ends there, the user is never
\* read, and no ecoPoints and no user_rewards row changes.
C9_RewardNotFound ==
    [][\A p \in Procs, u \in AllUserIds, r \in AllRewardIds :
          (redeemReward_selectReward(p, u, r) /\ r \notin DOMAIN rewards) =>
              /\ result'[p] = Error("Reward not found")
              /\ pc'[p] = "idle"
              /\ local'[p].user = <<>>
              /\ users' = users /\ userRewards' = userRewards]_vars

C9_Witness ==
    \E p \in Procs :
        /\ Idle(p) /\ call[p].op = "redeemReward"
        /\ call[p].rewardId \notin DOMAIN rewards
        /\ call[p].userId \in DOMAIN users
        /\ result[p] = Error("Reward not found")
        /\ local[p].user = <<>>

\* C10: the currentParticipants of a cleanup event created with
\* currentParticipants <= maxParticipants never exceeds its maxParticipants,
\* whatever joinCleanupEvent calls are made.
C10_ParticipantCap ==
    \A e \in DOMAIN cleanupEvents :
        cleanupEvents[e].currentParticipants <= cleanupEvents[e].maxParticipants

\* C11: a community report's status is always one of reported, investigating,
\* resolved, and no step moves it backwards in that order
Lifecycle == <<"reported", "investigating", "resolved">>

LifecycleRank(status) == CHOOSE i \in 1..Len(Lifecycle) : Lifecycle[i] = status

InLifecycle(status) == \E i \in 1..Len(Lifecycle) : Lifecycle[i] = status

C11_StatusLifecycle ==
    [][\A i \in 1..Len(communityReports) :
          /\ InLifecycle(communityReports[i].status)
          /\ InLifecycle(communityReports'[i].status)
          /\ LifecycleRank(communityReports'[i].status)
                >= LifecycleRank(communityReports[i].status)]_vars

\* the number of participant rows of an event
EventRows(rows, eventId) ==
    Cardinality({i \in 1..Len(rows) : rows[i].eventId = eventId})

\* C12: every joinCleanupEvent call adds exactly 1 to currentParticipants of its
\* event, whether or not its insert added a row; the insert adds at most one
\* row, and none when the pair is already a participant.
C12_JoinAlwaysIncrements ==
    [][\A p \in Procs :
          /\ joinCleanupEvent_update(p) =>
                /\ cleanupEvents'[call[p].eventId].currentParticipants
                      = cleanupEvents[call[p].eventId].currentParticipants + 1
                /\ eventParticipants' = eventParticipants
          /\ \A e \in DOMAIN cleanupEvents, u \in UserIds :
                joinCleanupEvent_insert(p, e, u) =>
                    /\ cleanupEvents' = cleanupEvents
                    /\ EventRows(eventParticipants', e) <= EventRows(eventParticipants, e) + 1
                    /\ ParticipantCount(eventParticipants, e, u) >= 1 =>
                          eventParticipants' = eventParticipants]_vars

\* two joins of the same pair are done: one row, a count that grew by 2
C12_Witness ==
    \E p, q \in Procs :
        /\ p # q /\ Idle(p) /\ Idle(q)
        /\ call[p].op = "joinCleanupEvent" /\ call[q] = call[p]
        /\ result[p].status = "ok" /\ result[q].status = "ok"
        /\ EventRows(eventParticipants, call[p].eventId) = 1
        /\ cleanupEvents[call[p].eventId].currentParticipants = 2
        /\ calls = 2

\* the ecoPointsEarned of the waste entries with indices in S, summed
RECURSIVE SumEarned(_)
SumEarned(S) ==
    IF S = {} THEN 0
    ELSE LET i == CHOOSE i \in S : TRUE IN
         wasteEntries[i].ecoPointsEarned + SumEarned(S \ {i})

\* the ecoPointsCost of the rewards of the user_rewards rows with indices in S, summed
RECURSIVE SumRedeemed(_)
SumRedeemed(S) ==
    IF S = {} THEN 0
    ELSE LET i == CHOOSE i \in S : TRUE IN
         rewards[userRewards[i].rewardId].ecoPointsCost + SumRedeemed(S \ {i})

RewardsOf(userId) == {i \in 1..Len(userRewards) : userRewards[i].userId = userId}

\* C13: whenever no call is in progress, however the calls interleaved, every
\* user's ecoPoints is the initial balance plus the ecoPointsEarned of the
\* createWasteEntry calls made for the user minus the ecoPointsCost of the
\* rewards the user redeemed: no credit and no deduction is lost.
C13_PointsConserved ==
    (\A p \in Procs : Idle(p)) =>
        \A u \in DOMAIN users :
            users[u].ecoPoints = users0[u].ecoPoints + SumEarned(EntriesOf(u))
                                    - SumRedeemed(RewardsOf(u))

\* two redemptions raced past the check; both deductions are in the balance
C13_Witness ==
    /\ \A p \in Procs : Idle(p)
    /\ \E u \in DOMAIN users :
        /\ Cardinality(RewardsOf(u)) = 2
        /\ users[u].ecoPoints < 0
        /\ users[u].ecoPoints = users0[u].ecoPoints - SumRedeemed(RewardsOf(u))

\* the redeemReward calls for userId that have deducted and not yet inserted
Deducting(userId) ==
    {p \in Procs : pc[p] = "redeemReward_insert" /\ call[p].userId = userId}

\* C14: in every state the user_rewards rows of a user are no more than the
\* deductions applied to the user, and the deductions without a row are exactly
\* those of the calls that stand between their two writes.
C14_DeductBeforeInsert ==
    \A u \in AllUserIds :
        /\ Cardinality(RewardsOf(u)) <= Len(deductions[u])
        /\ Len(deductions[u]) = Cardinality(RewardsOf(u)) + Cardinality(Deducting(u))

\* a call stands between its two writes: the points are gone, no row is there
C14_Witness ==
    \E p \in Procs :
        /\ pc[p] = "redeemReward_insert"
        /\ \A q \in Procs \ {p} : Idle(q) /\ call[q] = NoCall
        /\ users[call[p].userId].ecoPoints
              = users0[call[p].userId].ecoPoints - RewardCost(p)
        /\ RewardCost(p) > 0
        /\ RewardsOf(call[p].userId) = {}

RECURSIVE SumCosts(_)
SumCosts(costs) == IF costs = <<>> THEN 0 ELSE Head(costs) + SumCosts(Tail(costs))

\* the createWasteEntry calls that have inserted and not yet credited
Crediting == {p \in Procs : pc[p] = "createWasteEntry_update"}

RECURSIVE PendingEarned(_, _)
PendingEarned(S, userId) ==
    IF S = {} THEN 0
    ELSE LET p == CHOOSE p \in S : TRUE IN
         (IF call[p].entry.userId = userId THEN call[p].entry.ecoPointsEarned ELSE 0)
            + PendingEarned(S \ {p}, userId)

\* C15: while a createWasteEntry call stands between its two writes its entry is
\* stored and its points are not credited: every balance is the initial balance
\* plus the points of the stored entries, less those of the calls still to
\* credit, less the costs deducted.
C15_InsertBeforeCredit ==
    /\ \A p \in Crediting :
          \E i \in 1..Len(wasteEntries) : wasteEntries[i] = local[p].wasteEntry[1]
    /\ \A u \in DOMAIN users :
          users[u].ecoPoints = users0[u].ecoPoints + SumEarned(EntriesOf(u))
                                  - PendingEarned(Crediting, u) - SumCosts(deductions[u])

\* a redeemReward call that started after the insert has read the balance
\* without the points of the entry, while the entry's call still has to credit
C15_Witness ==
    \E p, q \in Procs :
        /\ p # q
        /\ pc[p] = "createWasteEntry_update"
        /\ call[p].entry.ecoPointsEarned > 0
        /\ call[p].entry.userId \in DOMAIN users
        /\ pc[q] = "redeemReward_deduct"
        /\ call[q].userId = call[p].entry.userId
        /\ \E i \in 1..Len(pre[q].wasteEntries) :
              pre[q].wasteEntries[i] = local[p].wasteEntry[1]
        /\ local[q].user[1].ecoPoints = users0[call[q].userId].ecoPoints
        /\ users[call[q].userId].ecoPoints = users0[call[q].userId].ecoPoints

\* the ids of the rows of a table kept in insertion order
Ids(rows) == {rows[i].id : i \in 1..Len(rows)}

\* C16: no step of any storage method removes a row: the keys of users, waste
\* entries, pickup schedules, community reports, cleanup events, event
\* participants, challenge-progress rows, rewards and user rewards after the
\* step include the keys before it.
C16_NoRowDeleted ==
    [][/\ DOMAIN users \subseteq DOMAIN users'
       /\ Ids(wasteEntries) \subseteq Ids(wasteEntries')
       /\ Ids(pickupSchedules) \subseteq Ids(pickupSchedules')
       /\ Ids(communityReports) \subseteq Ids(communityReports')
       /\ DOMAIN cleanupEvents \subseteq DOMAIN cleanupEvents'
       /\ Ids(eventParticipants) \subseteq Ids(eventParticipants')
       /\ Ids(userChallengeProgress) \subseteq Ids(userChallengeProgress')
       /\ DOMAIN rewards \subseteq DOMAIN rewards'
       /\ Ids(userRewards) \subseteq Ids(userRewards')]_vars

\* a status update that matched no row and an upsert of an existing user have
\* run, and every row is still there
C16_Witness ==
    /\ Len(communityReports) = 1
    /\ \E p \in Procs :
        /\ call[p].op = "updateCommunityReportStatus"
        /\ call[p].id = 2
        /\ result[p] = Ok(<<>>)
    /\ "updatedAt" \in DOMAIN users["u1"]
    /\ DOMAIN users0 \subseteq DOMAIN users

\* C17: run between other calls, getUserAnalytics(userId) returns as
\* totalEcoPoints the ecoPoints stored on the user row (0 when there is no row or
\* the column is NULL) and as totalWasteEntries the number of the user's entries.
C17_AnalyticsTotals ==
    [][\A p \in Procs : getUserAnalytics_selectEntries(p) =>
          LET u == call[p].userId
              v == result'[p].value IN
          /\ v.totalEcoPoints =
                IF u \notin DOMAIN users THEN 0
                ELSE IF "ecoPoints" \notin DOMAIN users[u] THEN 0
                ELSE users[u].ecoPoints
          /\ v.totalWasteEntries = Cardinality(EntriesOf(u))]_vars

\* one call returned the stored balance of a user, which is not the sum of the
\* points of the user's entries; another returned 0 for a user that has entries
\* and no balance
C17_Witness ==
    \E p, q \in Procs :
        /\ Idle(p) /\ Idle(q)
        /\ call[p].op = "getUserAnalytics" /\ call[q].op = "getUserAnalytics"
        /\ result[p].status = "ok" /\ result[q].status = "ok"
        /\ call[p].userId \in DOMAIN users
        /\ "ecoPoints" \in DOMAIN users[call[p].userId]
        /\ result[p].value.totalEcoPoints = users[call[p].userId].ecoPoints
        /\ result[p].value.totalEcoPoints # SumEarned(EntriesOf(call[p].userId))
        /\ result[p].value.totalWasteEntries = 1
        /\ call[q].userId \in DOMAIN users
        /\ "ecoPoints" \notin DOMAIN users[call[q].userId]
        /\ result[q].value.totalEcoPoints = 0
        /\ result[q].value.totalWasteEntries = 1

\* C20: redeemReward of an existing reward for a user id that matches no row
\* throws 'Insufficient EcoPoints', and no step of the call writes; for a user
\* row whose ecoPoints is NULL the check is the check of a balance of 0.
C20_MissingUserInsufficient ==
    [][\A p \in Procs :
          /\ \A u \in AllUserIds, r \in AllRewardIds \cup DOMAIN rewards :
                redeemReward_selectReward(p, u, r) => UNCHANGED tables
          /\ redeemReward_selectUser(p) =>
                LET user == SelectUser(call[p].userId)
                    rejected == /\ result'[p] = Error("Insufficient EcoPoints")
                                /\ pc'[p] = "idle"
                                /\ UNCHANGED tables
                    passed == pc'[p] = "redeemReward_deduct" IN
                /\ user = <<>> => rejected
                /\ (user # <<>> /\ "ecoPoints" \notin DOMAIN user[1]) =>
                      /\ 0 < RewardCost(p) => rejected
                      /\ 0 >= RewardCost(p) => passed]_vars

\* one call for a missing user was rejected and nothing was written; another,
\* for a user without a balance, passed the check of the free reward
C20_Witness ==
    \E p, q \in Procs :
        /\ call[p].op = "redeemReward" /\ call[q].op = "redeemReward"
        /\ call[p].userId \notin DOMAIN users
        /\ call[p].rewardId \in DOMAIN rewards
        /\ result[p] = Error("Insufficient EcoPoints")
        /\ users = users0 /\ userRewards = <<>>
        /\ call[q].userId \in DOMAIN users
        /\ "ecoPoints" \notin DOMAIN users[call[q].userId]
        /\ pc[q] = "redeemReward_deduct"

\* the toast has been shown
ToastShown(toast) == \E i \in 1..Len(toasts) : toasts[i] = toast

\* C18: each of the three mutation error handlers, given an HTTP 401 error,
\* shows the Unauthorized toast alone and schedules the redirect to /api/login;
\* given any other error it shows its generic Error toast alone and schedules
\* nothing; the page is left for /api/login only by a scheduled redirect.
C18_UnauthorizedOrGeneric ==
    [][/\ \A error \in ClientErrors :
            \A h \in {<<1, "Failed to submit report. Please try again.">>,
                      <<2, "Failed to join event. Please try again.">>,
                      <<3, "Failed to generate quiz. Please try again.">>} :
                ((h[1] = 1 /\ reportMutation_onError(error))
                    \/ (h[1] = 2 /\ joinEventMutation_onError(error))
                    \/ (h[1] = 3 /\ generateQuizMutation_onError(error))) =>
                        IF error.status = 401
                        THEN /\ toasts' = Append(toasts, UnauthorizedToast)
                             /\ redirectTimers' = redirectTimers + 1
                        ELSE /\ toasts' = Append(toasts, ErrorToast(h[2]))
                             /\ redirectTimers' = redirectTimers
       /\ (location' = "/api/login" /\ location # "/api/login") =>
             (redirectTimers > 0 /\ ToastShown(UnauthorizedToast))]_vars

\* the queries answered and the page shown, the report was submitted from the
\* form and failed with another error than the 401: its generic toast alone
\* was shown; a later request was answered by the 401: the Unauthorized
\* toast alone was added, and the redirect it scheduled has run
C18_Witness ==
    /\ location = "/api/login"
    /\ redirectTimers = 0
    /\ toasts = <<ErrorToast("Failed to submit report. Please try again."),
                  UnauthorizedToast>>
    /\ queries["/api/cleanup-events"].status = "success"

\* the statements each storage method of several statements awaits after
\* its first, in the order the method awaits them; the first statement is
\* awaited by the step that starts the call
MethodStatements ==
    {<<"createWasteEntry_update">>,
     <<"redeemReward_selectUser", "redeemReward_deduct", "redeemReward_insert">>,
     <<"joinCleanupEvent_update">>,
     <<"getUserAnalytics_selectEntries">>}

\* a call at statement from goes on to statement to, later in its method
Forward(from, to) ==
    \E m \in MethodStatements : \E j \in 1..Len(m) :
        /\ m[j] = to
        /\ from = "idle" \/ \E i \in 1..(j - 1) : m[i] = from

\* C19: nothing is issued twice. A storage call only moves forward through
\* the statements of its method until it returns, a call that throws is over
\* and no step of a call starts a call; a query of the Community page issues
\* its request once, and when the request has failed the query stays in
\* error: the request is not issued again.
C19_NothingRetried ==
    [][/\ \A p \in Procs :
            /\ pc'[p] # pc[p] => (pc'[p] = "idle" \/ Forward(pc[p], pc'[p]))
            /\ result'[p].status = "error" => pc'[p] = "idle"
            /\ (pc[p] # "idle" /\ pc'[p] # pc[p]) => (calls' = calls /\ call'[p] = call[p])
       /\ \A key \in QueryKeys :
            /\ queries'[key].requests <= 1
            /\ queries'[key].status = "error" =>
                  (queries'[key].requests = 1 /\ queries'[key].failureCount = 1)
            /\ queries[key].status = "error" => queries'[key] = queries[key]]_vars

\* what does hold: the storage half as it stands, one request for each fetch
\* of a query, and a query in error fetched anew only when the success of
\* its mutation invalidates it or when the Community page mounts again
NothingRetriedWithinAFetch ==
    [][/\ \A p \in Procs :
            /\ pc'[p] # pc[p] => (pc'[p] = "idle" \/ Forward(pc[p], pc'[p]))
            /\ result'[p].status = "error" => pc'[p] = "idle"
            /\ (pc[p] # "idle" /\ pc'[p] # pc[p]) => (calls' = calls /\ call'[p] = call[p])
       /\ \A key \in QueryKeys :
            /\ queries'[key].requests <= 1
            /\ queries'[key].status = "error" =>
                  (queries'[key].requests = 1 /\ queries'[key].failureCount = 1)
            /\ queries[key].status = "error" =>
                  \/ queries'[key] = queries[key]
                  \/ /\ \/ IF key = ReportsQuery.queryKey THEN reportMutation_onSuccess
                                                          ELSE joinEventMutation_onSuccess
                        \/ ~CommunityShown /\ CommunityShown'
                     /\ queries'[key] = Fetch(queries[key])]_vars

\* the ids of the rows of a result
ResultIds(rows) == {rows[i].id : i \in 1..Len(rows)}

\* C21: redeemReward goes on for every reward that exists, active or not, and
\* passes its check exactly when the user exists and the balance covers the
\* cost; getAvailableRewards lists exactly the active rewards, so every reward
\* it lists, and the inactive ones besides, can be redeemed.
C21_InactiveRewardRedeemable ==
    [][\A p \in Procs :
          /\ \A u \in AllUserIds, r \in DOMAIN rewards :
                redeemReward_selectReward(p, u, r) => pc'[p] = "redeemReward_selectUser"
          /\ redeemReward_selectUser(p) =>
                (pc'[p] = "redeemReward_deduct" <=>
                    /\ call[p].userId \in DOMAIN users
                    /\ users[call[p].userId].ecoPoints >= RewardCost(p))
          /\ redeemReward_insert(p) =>
                /\ result'[p].status = "ok"
                /\ result'[p].value.rewardId = call[p].rewardId
          /\ getAvailableRewards(p) =>
                ResultIds(result'[p].value) = {r \in DOMAIN rewards : rewards[r].isActive}]_vars

\* an inactive reward was redeemed, and the listing another request got does
\* not hold it
C21_Witness ==
    \E p, q \in Procs :
        /\ Idle(p) /\ Idle(q)
        /\ call[p].op = "redeemReward"
        /\ result[p].status = "ok"
        /\ ~rewards[call[p].rewardId].isActive
        /\ \E i \in 1..Len(userRewards) : userRewards[i] = result[p].value
        /\ call[q].op = "getAvailableRewards"
        /\ call[p].rewardId \notin ResultIds(result[q].value)
        /\ Len(result[q].value) = 2

\* C22: the update of createWasteEntry changes the ecoPoints of the entry's user
\* alone, by the entry's ecoPointsEarned, and changes nothing when that is 0 or
\* absent, the entry staying inserted; the deduction of redeemReward changes the
\* ecoPoints of the call's user alone; no other step changes any user.
C22_OnlyNamedUserChanges ==
    [][\A p \in Procs :
          /\ createWasteEntry_update(p) =>
                LET entry == call[p].entry
                    earned == IF "ecoPointsEarned" \in DOMAIN entry
                              THEN entry.ecoPointsEarned ELSE 0 IN
                /\ \A u \in DOMAIN users : u # entry.userId => users'[u] = users[u]
                /\ users'[entry.userId].ecoPoints = users[entry.userId].ecoPoints + earned
                /\ earned = 0 => users' = users
                /\ \E i \in 1..Len(wasteEntries') : wasteEntries'[i] = local[p].wasteEntry[1]
          /\ redeemReward_deduct(p) =>
                \A u \in DOMAIN users : u # call[p].userId => users'[u] = users[u]
          /\ (~createWasteEntry_update(p) /\ ~redeemReward_deduct(p)
                /\ (pc'[p] # pc[p] \/ call'[p] # call[p] \/ result'[p] # result[p])) =>
                    users' = users]_vars

\* a call without ecoPointsEarned has returned: its entry is stored and no
\* balance moved; a call of the other request has credited its user alone
C22_Witness ==
    \E p, q \in Procs :
        /\ Idle(p) /\ Idle(q)
        /\ call[p].op = "createWasteEntry" /\ call[q].op = "createWasteEntry"
        /\ "ecoPointsEarned" \notin DOMAIN call[p].entry
        /\ result[p].status = "ok"
        /\ \E i \in 1..Len(wasteEntries) : wasteEntries[i] = result[p].value
        /\ users[call[p].entry.userId] = users0[call[p].entry.userId]
        /\ call[q].entry.userId # call[p].entry.userId
        /\ "ecoPointsEarned" \in DOMAIN call[q].entry
        /\ call[q].entry.ecoPointsEarned > 0
        /\ users[call[q].entry.userId].ecoPoints
              = users0[call[q].entry.userId].ecoPoints + call[q].entry.ecoPointsEarned

\* C23: updateCommunityReportStatus writes resolvedAt exactly when the new
\* status is 'resolved', and updatePickupScheduleStatus writes completedAt
\* exactly when the new status is 'completed'; with any other status the
\* timestamp of every row stays as it was.
C23_TimestampOnlyWhenFinal ==
    [][\A p \in Procs, now \in Times :
          /\ \A id \in 1..(Len(communityReports) + 1), s \in ReportStatuses :
                updateCommunityReportStatus(p, id, s, now) =>
                    \A i \in 1..Len(communityReports) :
                        communityReports'[i].resolvedAt =
                            IF communityReports[i].id = id /\ s = "resolved"
                            THEN <<now>>
                            ELSE communityReports[i].resolvedAt
          /\ \A id \in 1..(Len(pickupSchedules) + 1), s \in PickupStatuses :
                updatePickupScheduleStatus(p, id, s, now) =>
                    \A i \in 1..Len(pickupSchedules) :
                        pickupSchedules'[i].completedAt =
                            IF pickupSchedules[i].id = id /\ s = "completed"
                            THEN <<now>>
                            ELSE pickupSchedules[i].completedAt]_vars

\* a report was resolved and then given another status: resolvedAt is still set
C23_Witness ==
    \E i \in 1..Len(communityReports) :
        /\ communityReports[i].status # "resolved"
        /\ communityReports[i].resolvedAt # <<>>
        /\ \E p \in Procs :
            /\ call[p].op = "updateCommunityReportStatus"
            /\ call[p].id = communityReports[i].id
            /\ call[p].status = communityReports[i].status

\* the rows of a table with the given id
WithId(rows, id) == {i \in 1..Len(rows) : rows[i].id = id}

\* C24: a status update whose id matches no row returns undefined and leaves
\* every row as it was; one whose id matches a row sets that row's status,
\* returns the row and leaves every other row as it was. Neither throws.
C24_UnknownIdIsNoOp ==
    [][\A p \in Procs, now \in Times :
          /\ \A id \in 1..(Len(communityReports) + 1), s \in ReportStatuses :
                updateCommunityReportStatus(p, id, s, now) =>
                    /\ result'[p].status = "ok"
                    /\ Len(communityReports') = Len(communityReports)
                    /\ pickupSchedules' = pickupSchedules
                    /\ \A i \in 1..Len(communityReports) :
                          communityReports[i].id # id =>
                              communityReports'[i] = communityReports[i]
                    /\ IF WithId(communityReports, id) = {}
                       THEN /\ result'[p].value = <<>>
                            /\ communityReports' = communityReports
                       ELSE \E i \in WithId(communityReports, id) :
                            /\ result'[p].value = <<communityReports'[i]>>
                            /\ communityReports'[i].status = s
          /\ \A id \in 1..(Len(pickupSchedules) + 1), s \in PickupStatuses :
                updatePickupScheduleStatus(p, id, s, now) =>
                    /\ result'[p].status = "ok"
                    /\ Len(pickupSchedules') = Len(pickupSchedules)
                    /\ communityReports' = communityReports
                    /\ \A i \in 1..Len(pickupSchedules) :
                          pickupSchedules[i].id # id =>
                              pickupSchedules'[i] = pickupSchedules[i]
                    /\ IF WithId(pickupSchedules, id) = {}
                       THEN /\ result'[p].value = <<>>
                            /\ pickupSchedules' = pickupSchedules
                       ELSE \E i \in WithId(pickupSchedules, id) :
                            /\ result'[p].value = <<pickupSchedules'[i]>>
                            /\ pickupSchedules'[i].status = s]_vars

\* with two schedules stored, an update of an unknown id returned undefined and
\* both are as they were inserted
C24_Witness ==
    /\ Len(pickupSchedules) = 2
    /\ \A i \in 1..Len(pickupSchedules) : pickupSchedules[i].status = "scheduled"
    /\ \E p \in Procs :
        /\ call[p].op = "updatePickupScheduleStatus"
        /\ WithId(pickupSchedules, call[p].id) = {}
        /\ result[p] = Ok(<<>>)

\* a step of one of the read methods by request p
ReadStep(p) ==
    \/ \E u \in AllUserIds :
          \/ getUser(p, u)
          \/ getUserWasteEntries(p, u)
          \/ \E d, e \in Times : getWasteEntriesByDateRange(p, u, d, e)
          \/ getUserPickupSchedules(p, u)
          \/ getUserChallengeProgress(p, u)
          \/ getUserRewards(p, u)
          \/ getUserAnalytics_selectUser(p, u)
    \/ \E n \in {1, 50} : getCommunityReports(p, n)
    \/ \E now \in Times : getUpcomingCleanupEvents(p, now)
    \/ getActiveChallenges(p)
    \/ getAvailableRewards(p)
    \/ pc'[p] = "idle" /\ getUserAnalytics_selectEntries(p)

\* C25: a step of a read method leaves every table as it was.
C25_ReadsChangeNothing ==
    [][\A p \in Procs : ReadStep(p) => UNCHANGED <<tables, reports, ecoChallenges>>]_vars

\* after a waste entry and a pickup were stored, a request was returned the
\* entry of the user, and the tables still hold exactly those rows
C25_Witness ==
    \E p \in Procs :
        /\ call[p].op = "getUserWasteEntries"
        /\ result[p] = Ok(wasteEntries)
        /\ Len(wasteEntries) = 1
        /\ Len(pickupSchedules) = 1
        /\ DOMAIN users = DOMAIN users0

Protected == {"Dashboard", "Schedule", "Scanner", "Analytics", "Community", "Learn", "About"}

\* C26: a protected page (Dashboard at /, Schedule, Scanner, Analytics,
\* Community, Learn, About) is rendered only when useAuth() has finished
\* loading and the user is authenticated, and then each route renders its own
\* page; while loading or unauthenticated, / renders Landing and every other
\* path renders NotFound.
C26_ProtectedRoutes ==
    /\ Router \in Protected => ~isLoading /\ isAuthenticated
    /\ isLoading \/ ~isAuthenticated =>
          Router = IF location = "/" THEN "Landing" ELSE "NotFound"
    /\ ~isLoading /\ isAuthenticated =>
          Router = CASE location = "/" -> "Dashboard"
                     [] location = "/schedule" -> "Schedule"
                     [] location = "/scanner" -> "Scanner"
                     [] location = "/analytics" -> "Analytics"
                     [] location = "/community" -> "Community"
                     [] location = "/learn" -> "Learn"
                     [] location = "/about" -> "About"
                     [] OTHER -> "NotFound"

\* the browser is at /community, useAuth() is loaded but the user is not
\* authenticated, and NotFound is rendered; a handler of a protected page ran
\* before
C26_Witness ==
    /\ location = "/community"
    /\ ~isLoading
    /\ ~isAuthenticated
    /\ Router = "NotFound"
    /\ toasts # <<>>

\* every question of the current quiz has an answer
AllAnswered == \A index \in 0..(Len(currentQuiz[1]) - 1) : index \in DOMAIN quizAnswers

\* C27: handleSubmitQuiz submits the answers only when every question of the
\* current quiz has one, and otherwise shows the error toast and leaves the
\* results unset, so that results never hold a question with no answer; a
\* successful generation replaces the current quiz and clears the answers and
\* the results; Take Another Quiz resets the quiz, the answers, the results and
\* the topic, and the generator is shown again.
C27_QuizFlow ==
    [][/\ handleSubmitQuiz =>
             IF AllAnswered
             THEN submitting' # <<>> /\ toasts' = toasts
             ELSE /\ submitting' = <<>>
                  /\ toasts' = Append(toasts,
                        ErrorToast("Please answer all questions before submitting."))
                  /\ quizResults' = <<>>
       /\ quizResults' # <<>> =>
             \A i \in 1..Len(quizResults'[1].details) :
                 quizResults'[1].details[i].selectedAnswer # <<>>
       /\ \A data \in QuizData :
             generateQuizMutation_onSuccess(data) =>
                 /\ currentQuiz' = <<data>>
                 /\ quizAnswers' = <<>>
                 /\ quizResults' = <<>>
       /\ TakeAnotherQuiz =>
             /\ currentQuiz' = <<>>
             /\ quizAnswers' = <<>>
             /\ quizResults' = <<>>
             /\ quizTopic' = <<>>
             /\ QuizView' = "generator"]_vars

\* the quiz flow of a page that stays mounted: as above, for a generation
\* that succeeds while the Learn page that asked for it is rendered
QuizFlowOfMountedPage ==
    [][/\ handleSubmitQuiz =>
             IF AllAnswered
             THEN submitting' # <<>> /\ toasts' = toasts
             ELSE /\ submitting' = <<>>
                  /\ toasts' = Append(toasts,
                        ErrorToast("Please answer all questions before submitting."))
                  /\ quizResults' = <<>>
       /\ quizResults' # <<>> =>
             \A i \in 1..Len(quizResults'[1].details) :
                 quizResults'[1].details[i].selectedAnswer # <<>>
       /\ \A data \in QuizData :
             (generateQuizMutation_onSuccess(data) /\ orphans' = orphans) =>
                 /\ currentQuiz' = <<data>>
                 /\ quizAnswers' = <<>>
                 /\ quizResults' = <<>>
       /\ TakeAnotherQuiz =>
             /\ currentQuiz' = <<>>
             /\ quizAnswers' = <<>>
             /\ quizResults' = <<>>
             /\ quizTopic' = <<>>
             /\ QuizView' = "generator"]_vars

\* the Learn page was left while its quiz was being generated and is rendered
\* again; the generation has succeeded and its toast is shown, and the page
\* shows the generator and no quiz
QuizGeneratedAndLost ==
    /\ LearnShown
    /\ ToastShown(QuizGeneratedToast)
    /\ orphans = <<>>
    /\ ~generating
    /\ currentQuiz = <<>>
    /\ QuizView = "generator"

\* the results computed and not yet shown, and the results shown
QuizResultsHeld == {r[1] : r \in {submitting, quizResults} \ {<<>>}}

\* C28: the results of a non-empty quiz have correct + wrong = totalQuestions,
\* correct the number of questions whose selected answer is the correct one,
\* and score the percentage 100 * correct / totalQuestions rounded to the
\* nearest integer (a half going up), between 0 and 100.
C28_ResultsArithmetic ==
    \A r \in QuizResultsHeld :
        r.totalQuestions > 0 =>
            /\ r.totalQuestions = Len(r.details)
            /\ r.correct + r.wrong = r.totalQuestions
            /\ r.correct = Cardinality({i \in 1..Len(r.details) :
                              r.details[i].selectedAnswer = <<r.details[i].correctAnswer>>})
            /\ r.score = <<(200 * r.correct + r.totalQuestions) \div (2 * r.totalQuestions)>>
            /\ r.score[1] \in 0..100

====
